---- MODULE Spec2Model ----
(***************************************************************************)
(* Model of the notification layer of gxps (src/gxps/utility.py): Event,   *)
(* EventList, EventBus and Observable, and of the data that is observed    *)
(* (src/gxps/spectrum.py, src/gxps/processing.py): SpectrumContainer,      *)
(* Spectrum, ModeledSpectrum and Peak.                                     *)
(*                                                                         *)
(* Python values are encoded as follows.                                   *)
(*   - a dict is a function whose DOMAIN is the set of keys present;       *)
(*     EventBus._queue, whose iteration order matters (fire("all")), is a  *)
(*     sequence of [signal, events] entries in insertion order;            *)
(*   - a keyword value of emit is a record [islist, item, items]: a        *)
(*     non-list value v is [islist |-> FALSE, item |-> v, items |-> <<>>], *)
(*     a list l is [islist |-> TRUE, item |-> "", items |-> l];            *)
(*   - None is the string "None".                                          *)
(* A subscriber is an opaque callable: calling it is recorded in `calls`.  *)
(***************************************************************************)
EXTENDS Integers, Sequences, FiniteSets, TLC

VARIABLES
    bus,        \* bus id -> [policy, queue, subscribers]: the EventBus objects
    queues,     \* observable -> sequence of bus ids: Observable._queues
    calls,      \* subscriber invocations made by the last operation, in order
    received,   \* bus ids whose enqueue the last operation called, in order
    lastOp,     \* the last operation, its arguments and whether it raised
    ops,        \* number of operations performed so far
    sinceDispatch,  \* history: bus id -> signal -> the events that entered the
                    \* queue since the signal's subscribers were last called
    unregistered,   \* history: observable -> the buses passed to a successful
                    \* unregister_queue and not to register_queue since
    spectra,    \* SpectrumContainer._spectra: a sequence of spectrum ids
    attrs,      \* the private attributes of one Spectrum object
    fit,        \* [params, peaks] of one ModeledSpectrum object
    observed    \* history: the data as it was at each emit of the last
                \* operation, in order

\* the spectrum data
data == <<spectra, attrs, fit, observed>>

vars == <<ops, bus, queues, calls, received, lastOp, sinceDispatch, unregistered,
          spectra, attrs, fit, observed>>

(***************************************************************************)
(* Bounds and input sets                                                   *)
(***************************************************************************)
\* operations in one run of Spec
MaxOps == 3

\* operations in one run of SpecObs
MaxObsOps == 4

None == "None"

\* EventBus._policies
Policies == {"ignore", "accumulate", "fire"}

\* a policy name outside EventBus._policies
UnknownPolicy == "drop"

\* ModeledSpectrum._signals, of which two are exercised
Signals == {"changed-spectrum", "changed-fit"}

\* Observable._default_signals
DefaultSignals == {"registered-observable"}

\* a signal of another type (Peak), not declared for the observables here
UndeclaredSignal == "changed-peak"

Observables == {"sp1", "sp2"}

Callbacks == {"cb1", "cb2"}

Priorities == {1, 5}

\* keyword arguments passed to emit
Kinds == {"attr", "list", "noqueue"}

Scalar(v) == [islist |-> FALSE, item |-> v, items |-> <<>>]

List(l) == [islist |-> TRUE, item |-> "", items |-> l]

Kwargs(kind) ==
    CASE kind = "attr"    -> [k \in {"attr"} |-> Scalar("a")]
      [] kind = "list"    -> [k \in {"attr"} |-> List(<<"b", "c">>)]
      [] kind = "noqueue" -> [k \in {"noqueue"} |-> Scalar("True")]

(***************************************************************************)
(* Event and EventList                                                     *)
(***************************************************************************)
\* Event.__init__ followed by the assignments of Observable.emit
Event(signal, source, properties) ==
    [signal |-> signal, source |-> source, properties |-> properties]

\* EventListStep with the values and the source of the new event put first
EventListStep_Prepend(acc, event) ==
    [signal |-> acc.signal,
     source |-> event.source \o acc.source,
     properties |->
        [prop \in DOMAIN acc.properties \cup DOMAIN event.properties |->
            LET old == IF prop \in DOMAIN acc.properties
                       THEN acc.properties[prop] ELSE <<>>
            IN  IF prop \notin DOMAIN event.properties THEN old
                ELSE IF event.properties[prop].islist
                     THEN event.properties[prop].items \o old
                     ELSE <<event.properties[prop].item>> \o old]]

\* the body of the loop `for event in self._list` of EventList.__init__
EventListStep(acc, event) ==
    [signal |-> acc.signal,
     source |-> acc.source \o event.source,
     properties |->
        [prop \in DOMAIN acc.properties \cup DOMAIN event.properties |->
            LET old == IF prop \in DOMAIN acc.properties
                       THEN acc.properties[prop] ELSE <<>>
            IN  IF prop \notin DOMAIN event.properties THEN old
                ELSE IF event.properties[prop].islist
                     THEN old \o event.properties[prop].items
                     ELSE Append(old, event.properties[prop].item)]]

RECURSIVE EventListLoop(_, _, _)
EventListLoop(acc, eventlist, i) ==
    IF i > Len(eventlist) THEN acc
    ELSE EventListLoop(EventListStep(acc, eventlist[i]), eventlist, i + 1)

\* EventList.__init__ (called with a non-empty list of one signal only)
EventList(eventlist) ==
    EventListLoop([signal |-> eventlist[1].signal, source |-> <<>>,
                   properties |-> <<>>], eventlist, 1)

(***************************************************************************)
(* EventBus                                                                *)
(***************************************************************************)
\* EventBus.__init__
NewBus(default_policy) ==
    [policy |-> [k \in {"default", "all"} |->
                    IF k = "default" THEN default_policy ELSE None],
     subscribers |-> <<>>,
     queue |-> <<>>]

\* dict assignment d[key] = value
DictSet(d, key, value) ==
    [k \in DOMAIN d \cup {key} |-> IF k = key THEN value ELSE d[k]]

\* `signal in self._queue`
InQueue(queue, signal) == \E i \in 1..Len(queue) : queue[i].signal = signal

\* self._queue[signal]
QueueGet(queue, signal) ==
    queue[CHOOSE i \in 1..Len(queue) : queue[i].signal = signal].events

\* self._queue[signal] = events (a new key goes last) and in-place changes
QueueSet(queue, signal, events) ==
    IF InQueue(queue, signal)
    THEN [i \in 1..Len(queue) |->
            IF queue[i].signal = signal
            THEN [signal |-> signal, events |-> events] ELSE queue[i]]
    ELSE Append(queue, [signal |-> signal, events |-> events])

\* sorted(subs, key=lambda x: x[1]): stable, ascending priority
RECURSIVE Insert(_, _)
Insert(sorted, sub) ==
    IF sorted = <<>> THEN <<sub>>
    ELSE IF sorted[Len(sorted)].priority <= sub.priority
         THEN Append(sorted, sub)
         ELSE Append(Insert(SubSeq(sorted, 1, Len(sorted) - 1), sub),
                     sorted[Len(sorted)])

RECURSIVE SortedLoop(_, _, _)
SortedLoop(acc, subs, i) ==
    IF i > Len(subs) THEN acc
    ELSE SortedLoop(Insert(acc, subs[i]), subs, i + 1)

\* Sorted without the sort: subscription order
Sorted_Unordered(subs) == subs

Sorted(subs) == SortedLoop(<<>>, subs, 1)

\* CallSubscribers leaving the loop after the first subscriber
CallSubscribers_First(id, subs, event_list) ==
    <<[bus |-> id, callback |-> subs[1].callback,
       priority |-> subs[1].priority, event |-> event_list]>>

\* the loop `for callback, _prio in sorted(subs, ...): callback(event_list)`
CallSubscribers(id, subs, event_list) ==
    [i \in 1..Len(subs) |->
        [bus |-> id, callback |-> subs[i].callback,
         priority |-> subs[i].priority, event |-> event_list]]

\* EventBus.fire(signal) for a specific signal: the bus after it and the
\* subscriber invocations it makes
FireSignal(id, b, signal) ==
    IF ~InQueue(b.queue, signal) \/ QueueGet(b.queue, signal) = <<>>
    THEN [bus |-> b, calls |-> <<>>]
    ELSE IF signal \notin DOMAIN b.subscribers
    THEN [bus |-> b, calls |-> <<>>]
    ELSE LET event_list == EventList(QueueGet(b.queue, signal))
         IN  [bus |-> [b EXCEPT !.queue = QueueSet(b.queue, signal, <<>>)],
              calls |-> CallSubscribers(id, Sorted(b.subscribers[signal]),
                                        event_list)]

\* EventBus.fire("all"): the loop over the keys of self._queue
RECURSIVE FireAllLoop(_, _, _, _)
FireAllLoop(id, b, i, done) ==
    IF i > Len(b.queue) THEN [bus |-> b, calls |-> done]
    ELSE IF b.queue[i].signal = "all" THEN FireAllLoop(id, b, i + 1, done)
    ELSE LET r == FireSignal(id, b, b.queue[i].signal)
         IN  FireAllLoop(id, r.bus, i + 1, done \o r.calls)

\* EventBus.fire
FireOp(id, b, signal) ==
    IF signal = "all" THEN FireAllLoop(id, b, 1, <<>>)
    ELSE FireSignal(id, b, signal)

\* the policy EventBus.enqueue computes for an event
EnqueuePolicy(b, signal) ==
    IF b.policy["all"] # None THEN b.policy["all"]
    ELSE IF signal \in DOMAIN b.policy THEN b.policy[signal]
    ELSE b.policy["default"]

\* EnqueueOp dispatching every event that is not dropped
EnqueueOp_Eager(id, b, event) ==
    LET policy == EnqueuePolicy(b, event.signal)
    IN  IF b.policy["all"] = None /\ policy = "ignore"
        THEN [bus |-> b, calls |-> <<>>]
        ELSE LET old == IF InQueue(b.queue, event.signal)
                        THEN QueueGet(b.queue, event.signal) ELSE <<>>
             IN  FireSignal(id, [b EXCEPT !.queue =
                        QueueSet(b.queue, event.signal, Append(old, event))],
                     event.signal)

\* EventBus.enqueue
EnqueueOp(id, b, event) ==
    LET policy == EnqueuePolicy(b, event.signal)
    IN  IF b.policy["all"] = None /\ policy = "ignore"
        THEN [bus |-> b, calls |-> <<>>]
        ELSE LET old == IF InQueue(b.queue, event.signal)
                        THEN QueueGet(b.queue, event.signal) ELSE <<>>
                 b1 == [b EXCEPT !.queue =
                          QueueSet(b.queue, event.signal, Append(old, event))]
             IN  IF "noqueue" \in DOMAIN event.properties \/ policy = "fire"
                 THEN FireSignal(id, b1, event.signal)
                 ELSE [bus |-> b1, calls |-> <<>>]

\* EventBus.subscribe (signal # "all")
SubscribeOp(b, callback, signal, priority) ==
    LET old == IF signal \in DOMAIN b.subscribers
               THEN b.subscribers[signal] ELSE <<>>
    IN  [b EXCEPT !.subscribers =
            DictSet(b.subscribers, signal,
                    Append(old, [callback |-> callback, priority |-> priority]))]

\* EventBus.unsubscribe: for one signal, dict(self._subscribers[signal]) is
\* a new dict and the pop is made on it (KeyError for a signal nobody has
\* subscribed to); for "all", the loop runs over the keys of
\* self._subscribers, and dict(key) of a signal name raises ValueError
UnsubscribeOp(b, callback, signal) ==
    IF signal = "all"
    THEN [bus |-> b, raised |-> DOMAIN b.subscribers # {}]
    ELSE [bus |-> b, raised |-> signal \notin DOMAIN b.subscribers]

\* SetPolicyOp applying the new policy to the events already pending
SetPolicyOp_Retroactive(id, b, policy, signal) ==
    LET b1 == [b EXCEPT !.policy = DictSet(b.policy, signal, policy)]
    IN  IF policy = "fire" THEN FireOp(id, b1, signal)
        ELSE [bus |-> b1, calls |-> <<>>]

\* EventBus.set_policy (policy in self._policies)
SetPolicyOp(id, b, policy, signal) ==
    [bus |-> [b EXCEPT !.policy = DictSet(b.policy, signal, policy)],
     calls |-> <<>>]

\* EventBus.get_policy
GetPolicy(b, signal) ==
    IF signal \notin DOMAIN b.policy THEN b.policy["default"]
    ELSE b.policy[signal]

(***************************************************************************)
(* Observable                                                              *)
(***************************************************************************)
\* self._signals after Observable.__init__
DeclaredSignals == Signals \cup DefaultSignals

\* the events pending for a signal (none when the key is absent)
Pending(b, signal) ==
    IF InQueue(b.queue, signal) THEN QueueGet(b.queue, signal) ELSE <<>>

\* history of one enqueue: the events that entered the queue of the event's
\* signal since its subscribers were last called
TrackEnqueue(since, before, r, event) ==
    [since EXCEPT ![event.signal] =
        IF r.calls # <<>> THEN <<>>
        ELSE IF Len(Pending(r.bus, event.signal))
                    > Len(Pending(before, event.signal))
             THEN Append(@, event)
             ELSE @]

\* history of one fire: the signals whose subscribers were called start anew
TrackFire(since, made) ==
    [signal \in DOMAIN since |->
        IF \E i \in 1..Len(made) : made[i].event.signal = signal
        THEN <<>> ELSE since[signal]]

\* the loop `for queue in self._queues: queue.enqueue(event)` of emit: the
\* buses after it, the subscriber invocations made and the buses called
RECURSIVE EmitLoop(_, _, _, _)
EmitLoop(st, regs, event, i) ==
    IF i > Len(regs) THEN st
    ELSE LET id == regs[i]
             r == EnqueueOp(id, st.bus[id], event)
         IN  EmitLoop([bus |-> [st.bus EXCEPT ![id] = r.bus],
                       calls |-> st.calls \o r.calls,
                       received |-> Append(st.received, id),
                       since |-> [st.since EXCEPT ![id] =
                                    TrackEnqueue(@, st.bus[id], r, event)]],
                      regs, event, i + 1)

\* ListRemove removing every occurrence
ListRemove_All(list, x) == SelectSeq(list, LAMBDA y : y # x)

\* list.remove(x): removes the first occurrence
RECURSIVE ListRemove(_, _)
ListRemove(list, x) ==
    IF list = <<>> THEN <<>>
    ELSE IF Head(list) = x THEN Tail(list)
    ELSE <<Head(list)>> \o ListRemove(Tail(list), x)

\* `x in list`
InList(list, x) == \E i \in 1..Len(list) : list[i] = x

Op(name, target, signal, arg, raised) ==
    [op |-> name, target |-> target, signal |-> signal, arg |-> arg,
     raised |-> raised]

(***************************************************************************)
(* Subscribers that emit (src/gxps/state.py)                               *)
(*                                                                         *)
(* State.alter_project is a subscriber that sets project_isaltered, whose  *)
(* setter emits changed-project on the same bus when the flag changes. A   *)
(* dispatch is followed through such a subscriber: st holds the bus, the   *)
(* subscriber calls made so far, the events emitted so far, whether        *)
(* project_isaltered is still False, and whether an exception has ended    *)
(* the operation.                                                          *)
(***************************************************************************)
\* the signals of the observables that emit in a dispatch
StateSignals == {"changed-spectrum", "changed-project"}

\* the event of `self.emit("changed-project", attr="isaltered")`
AlteredEvent ==
    Event("changed-project", <<"state">>,
          [k \in {"attr"} |-> Scalar("isaltered")])

RECURSIVE CallLoopR(_, _, _, _)

\* EventBus.fire(signal) for a specific signal, its subscribers run
FireSignalR(st, signal) ==
    IF ~InQueue(st.bus.queue, signal) \/ QueueGet(st.bus.queue, signal) = <<>>
    THEN st
    ELSE IF signal \notin DOMAIN st.bus.subscribers THEN st
    ELSE CallLoopR([st EXCEPT !.bus.queue = QueueSet(@, signal, <<>>)],
                   Sorted(st.bus.subscribers[signal]),
                   EventList(QueueGet(st.bus.queue, signal)), 1)

\* EventBus.enqueue, the subscribers of a signal that fires run
EnqueueR(st, event) ==
    LET policy == EnqueuePolicy(st.bus, event.signal)
        old == Pending(st.bus, event.signal)
        st1 == [st EXCEPT !.bus.queue =
                  QueueSet(@, event.signal, Append(old, event))]
    IN  IF st.bus.policy["all"] = None /\ policy = "ignore" THEN st
        ELSE IF "noqueue" \in DOMAIN event.properties \/ policy = "fire"
        THEN FireSignalR(st1, event.signal)
        ELSE st1

\* self.emit("changed-active", attr=attr) of State, which is registered with
\* the bus
EmitActive(st, attr) ==
    LET event == Event("changed-active", <<"state">>,
                       [k \in {"attr"} |-> Scalar(attr)])
    IN  EnqueueR([st EXCEPT !.emitted = Append(@, event)], event)

\* the active peaks that are peaks of an active spectrum: the copy of
\* _active_peaks that update_active and the active_spectra setter make,
\* less the peaks they remove from it
PeaksOfActive(st) ==
    SelectSeq(st.state.active_peaks,
              LAMBDA peak :
                 \E j \in 1..Len(st.state.active_spectra) :
                    InList(st.world.peaks[st.state.active_spectra[j]], peak))

\* state.active_peaks = value
SetActivePeaksR(st, value) ==
    IF value = st.state.active_peaks THEN st
    ELSE IF \E i \in 1..Len(value) :
               ~\E j \in 1..Len(st.state.active_spectra) :
                   InList(st.world.peaks[st.state.active_spectra[j]], value[i])
    THEN [st EXCEPT !.raised = TRUE]
    ELSE EmitActive([st EXCEPT !.state.active_peaks = value], "peaks")

\* state.active_spectra = value
SetActiveSpectraR(st, value) ==
    IF value = st.state.active_spectra THEN st
    ELSE IF \E i \in 1..Len(value) : ~InList(st.world.spectra, value[i])
    THEN [st EXCEPT !.raised = TRUE]
    ELSE CHOOSE out \in
            {SetActivePeaksR(st1, PeaksOfActive(st1)) :
             st1 \in {EmitActive([st EXCEPT !.state.active_spectra = value],
                                 "spectra")}} : TRUE

\* update_active left out: the active lists are never cleaned
UpdateActiveR_Idle(st) == st

\* State.update_active
UpdateActiveR(st) ==
    CHOOSE out \in
        {SetActivePeaksR(st1, PeaksOfActive(st1)) :
         st1 \in {SetActiveSpectraR(st,
                     SelectSeq(st.state.active_spectra,
                               LAMBDA spectrum :
                                  InList(st.world.spectra, spectrum)))}} : TRUE

\* callback(event_list): State.alter_project emits changed-project when
\* project_isaltered was False, State.update_active cleans the active
\* lists, a subscriber that mirrors project_isaltered reads it, any other
\* callback emits nothing
CallR(st, sub, event_list) ==
    LET st1 == [st EXCEPT !.calls =
                  Append(@, [bus |-> "bus", callback |-> sub.callback,
                             priority |-> sub.priority,
                             event |-> event_list])]
    IN  IF sub.callback = "alter_project" /\ st.unaltered
        THEN EnqueueR([st1 EXCEPT !.unaltered = FALSE,
                                  !.emitted = Append(@, AlteredEvent)],
                      AlteredEvent)
        ELSE IF sub.callback = "update_active" THEN UpdateActiveR(st1)
        ELSE IF sub.callback = "mirror"
        THEN [st1 EXCEPT !.state.mirror = ~st1.unaltered]
        ELSE st1

\* the loop `for callback, _prio in sorted(subs, ...): callback(event_list)`
CallLoopR(st, subs, event_list, i) ==
    IF i > Len(subs) THEN st
    ELSE CallLoopR(CallR(st, subs[i], event_list), subs, event_list, i + 1)

\* EventBus.fire("all"): the loop `for specific_signal in self._queue` from
\* the i-th key on; a dict that has grown since the loop began makes the
\* iterator raise RuntimeError when the next key is asked for
RECURSIVE FireAllR(_, _, _)
FireAllR(st, i, size) ==
    IF Len(st.bus.queue) # size THEN [st EXCEPT !.raised = TRUE]
    ELSE IF i > size THEN st
    ELSE IF st.bus.queue[i].signal = "all" THEN FireAllR(st, i + 1, size)
    ELSE FireAllR(FireSignalR(st, st.bus.queue[i].signal), i + 1, size)

\* EventBus.fire, its subscribers run
FireR(st, signal) ==
    IF signal = "all" THEN FireAllR(st, 1, Len(st.bus.queue))
    ELSE FireSignalR(st, signal)

\* an operation begins: no call made yet
Dispatching(b, emitted, unaltered) ==
    [bus |-> b, calls |-> <<>>, emitted |-> emitted, unaltered |-> unaltered,
     raised |-> FALSE]

(***************************************************************************)
(* SpectrumContainer (src/gxps/spectrum.py)                                *)
(***************************************************************************)
\* SpectrumContainer._signals
ContainerSignals == {"changed-spectra"}

\* emit called without keyword arguments
NoKwargs == [k \in {} |-> Scalar("")]

\* one self.emit(signal, **kwargs) of a method, with the data as it is then
Emitted(signal, kwargs, now) == [signal |-> signal, kwargs |-> kwargs, now |-> now]

\* what a method does: the data after it, its emits in order, whether it raised
Outcome(after, emits, raised) ==
    [after |-> after, emits |-> emits, raised |-> raised]

\* AddSpectrumOp emitting before the spectrum is appended
AddSpectrumOp_EmitFirst(list, s) ==
    Outcome(Append(list, s), <<Emitted("changed-spectra", NoKwargs, list)>>,
            FALSE)

\* container.add_spectrum(spectrum)
AddSpectrumOp(list, s) ==
    Outcome(Append(list, s),
            <<Emitted("changed-spectra", NoKwargs, Append(list, s))>>, FALSE)

\* container.remove_spectrum(spectrum): list.remove raises ValueError for a
\* spectrum that is not in the list
RemoveSpectrumOp(list, s) ==
    IF ~InList(list, s) THEN Outcome(list, <<>>, TRUE)
    ELSE Outcome(ListRemove(list, s),
                 <<Emitted("changed-spectra", NoKwargs, ListRemove(list, s))>>,
                 FALSE)

\* container.clear()
ClearOp(list) ==
    Outcome(<<>>, <<Emitted("changed-spectra", NoKwargs, <<>>)>>, FALSE)

\* the emits of one method, passed in order through Observable.emit
RECURSIVE EmitAll(_, _, _, _, _)
EmitAll(st, obs, regs, emits, i) ==
    IF i > Len(emits) THEN st
    ELSE EmitAll(EmitLoop(st, regs,
                          Event(emits[i].signal, <<obs>>, emits[i].kwargs), 1),
                 obs, regs, emits, i + 1)

\* the part of a method of the observable obs that is the same for all: its
\* emits reach the registered buses
Notify(obs, name, arg, r) ==
    LET st == EmitAll([bus |-> bus, calls |-> <<>>, received |-> <<>>,
                       since |-> sinceDispatch],
                      obs, queues[obs], r.emits, 1)
    IN  /\ bus' = st.bus
        /\ calls' = st.calls
        /\ received' = st.received
        /\ sinceDispatch' = st.since
        /\ observed' = [i \in 1..Len(r.emits) |-> r.emits[i].now]
        /\ lastOp' = Op(name, obs, "", arg, r.raised)
        /\ ops' = ops + 1
        /\ UNCHANGED <<queues, unregistered>>

(***************************************************************************)
(* Spectrum (src/gxps/spectrum.py, src/gxps/processing.py)                 *)
(*                                                                         *)
(* Energies, bounds and the calibration are integers.  An intensity, a     *)
(* background sample or a divisor is a number [kind, n, d]: the fraction   *)
(* n/d in lowest terms with d > 0 when kind is "finite", an infinity of    *)
(* sign n when kind is "inf", and not-a-number when kind is "nan".         *)
(* The shirley shape of the background is not exercised.                   *)
(***************************************************************************)
Abs(x) == IF x < 0 THEN -x ELSE x

RECURSIVE GCD(_, _)
GCD(a, b) == IF b = 0 THEN a ELSE GCD(b, a % b)

\* the fraction n/d (d # 0) in lowest terms
Rat(n, d) ==
    LET g == GCD(Abs(n), Abs(d))
        sign == IF d < 0 THEN -1 ELSE 1
    IN  [kind |-> "finite", n |-> sign * (n \div g) , d |-> sign * (d \div g)]

Fin(v) == [kind |-> "finite", n |-> v, d |-> 1]

PosInf == [kind |-> "inf", n |-> 1, d |-> 0]

NegInf == [kind |-> "inf", n |-> -1, d |-> 0]

NaN == [kind |-> "nan", n |-> 0, d |-> 0]

\* x / y in floating point, for a finite x
Quotient(x, y) ==
    CASE y.kind = "nan" -> NaN
      [] y.kind = "inf" -> Fin(0)
      [] y.kind = "finite" /\ y.n = 0 ->
            IF x.n = 0 THEN NaN
            ELSE IF x.n > 0 THEN PosInf ELSE NegInf
      [] OTHER -> Rat(x.n * y.d, x.d * y.n)

\* `abs(value) > 0`
AbsPositive(value) ==
    CASE value.kind = "nan" -> FALSE
      [] value.kind = "inf" -> TRUE
      [] OTHER -> value.n # 0

MinOf(seq) == CHOOSE v \in {seq[i] : i \in 1..Len(seq)} :
                 \A i \in 1..Len(seq) : v <= seq[i]

MaxOf(seq) == CHOOSE v \in {seq[i] : i \in 1..Len(seq)} :
                 \A i \in 1..Len(seq) : v >= seq[i]

RECURSIVE SumOf(_)
SumOf(seq) == IF seq = <<>> THEN 0 ELSE Head(seq) + SumOf(Tail(seq))

\* sorted(list(value)) of numbers
RECURSIVE SortedNumbers(_)
SortedNumbers(seq) ==
    IF seq = <<>> THEN <<>>
    ELSE LET rest == SortedNumbers(Tail(seq))
             lower == SelectSeq(rest, LAMBDA v : v < Head(seq))
             upper == SelectSeq(rest, LAMBDA v : v >= Head(seq))
         IN  lower \o <<Head(seq)>> \o upper

\* Spectrum.bg_types
BgTypes == {"none", "linear", "shirley", "tougaard"}

\* Spectrum.norm_types
NormTypes == {"none", "highest", "high_energy", "low_energy", "manual"}

\* the energy and intensity a spectrum is built from (increasing, equidistant)
RawEnergy == <<1, 2, 3, 4>>

RawIntensity == <<2, 4, 8, 6>>

\* Spectrum.__init__
NewSpectrum ==
    [energy |-> RawEnergy,
     intensity |-> RawIntensity,
     background |-> [i \in 1..Len(RawEnergy) |-> Fin(0)],
     background_type |-> "none",
     background_bounds |-> <<>>,
     energy_calibration |-> 0,
     normalization_type |-> "none",
     normalization_divisor |-> Fin(1)]

\* spectrum.energy
Energy(a) == [i \in 1..Len(a.energy) |-> a.energy[i] + a.energy_calibration]

\* spectrum.intensity
Intensity(a) ==
    [i \in 1..Len(a.intensity) |->
        Quotient(Fin(a.intensity[i]), a.normalization_divisor)]

\* spectrum.background
Background(a) ==
    [i \in 1..Len(a.background) |->
        Quotient(a.background[i], a.normalization_divisor)]

\* spectrum.background_bounds
BackgroundBounds(a) ==
    [i \in 1..Len(a.background_bounds) |->
        a.background_bounds[i] + a.energy_calibration]

\* emit(..., attr=name)
Attr(name) == [k \in {"attr"} |-> Scalar(name)]

\* SetEnergyCalibrationOp keeping the displayed bounds where they were
SetEnergyCalibrationOp_KeepBounds(a, value) ==
    IF value.kind = "inf" THEN Outcome(a, <<>>, TRUE)
    ELSE LET a1 == [a EXCEPT !.energy_calibration = value.n,
                             !.background_bounds =
                                [i \in 1..Len(@) |->
                                    @[i] + a.energy_calibration - value.n]]
         IN  Outcome(a1, <<Emitted("changed-spectrum",
                                   Attr("energy_calibration"), a1)>>, FALSE)

\* spectrum.energy_calibration = value, for a value that is not nan
SetEnergyCalibrationOp(a, value) ==
    IF value.kind = "inf" THEN Outcome(a, <<>>, TRUE)
    ELSE LET a1 == [a EXCEPT !.energy_calibration = value.n]
         IN  Outcome(a1, <<Emitted("changed-spectrum",
                                   Attr("energy_calibration"), a1)>>, FALSE)

\* np.searchsorted(energy, v), counted from 0
SearchSorted(energy, v) ==
    Cardinality({i \in 1..Len(energy) : energy[i] < v})

\* linear_bg: np.linspace(intensity[0], intensity[-1], samples), its k-th
\* sample counted from 0
LinearBg(intensity, k) ==
    IF Len(intensity) = 1 THEN Fin(intensity[1])
    ELSE Rat(intensity[1] * (Len(intensity) - 1)
                + k * (intensity[Len(intensity)] - intensity[1]),
             Len(intensity) - 1)

\* the loop over the pairs of bounds of calculate_background, from pair k on
RECURSIVE BackgroundLoop(_, _, _, _, _, _)
BackgroundLoop(background, bg_type, bg_bounds, energy, intensity, k) ==
    IF 2 * k > Len(bg_bounds)
    THEN [raised |-> FALSE, value |-> background]
    ELSE LET lower == SearchSorted(energy, bg_bounds[2 * k - 1])
             upper == SearchSorted(energy, bg_bounds[2 * k])
             idx1 == IF lower <= upper THEN lower ELSE upper
             idx2 == IF lower <= upper THEN upper ELSE lower
         IN  IF idx1 = idx2
             THEN BackgroundLoop(background, bg_type, bg_bounds, energy,
                                 intensity, k + 1)
             ELSE IF bg_type = "linear"
             THEN BackgroundLoop(
                     [i \in 1..Len(background) |->
                         IF i > idx1 /\ i <= idx2
                         THEN LinearBg(SubSeq(intensity, idx1 + 1, idx2),
                                       i - idx1 - 1)
                         ELSE background[i]],
                     bg_type, bg_bounds, energy, intensity, k + 1)
             ELSE [raised |-> TRUE, value |-> background]

\* calculate_background (bg_type # "shirley")
CalculateBackground(bg_type, bg_bounds, energy, intensity) ==
    IF bg_type = "none"
    THEN [raised |-> FALSE, value |-> [i \in 1..Len(energy) |-> Fin(0)]]
    ELSE BackgroundLoop([i \in 1..Len(intensity) |-> Fin(intensity[i])],
                        bg_type,
                        IF bg_bounds = <<>>
                        THEN <<MinOf(energy), MaxOf(energy)>> ELSE bg_bounds,
                        energy, intensity, 1)

\* spectrum.background_type = value
SetBackgroundTypeOp(a, value) ==
    IF value \notin BgTypes THEN Outcome(a, <<>>, TRUE)
    ELSE IF a.background_type = value THEN Outcome(a, <<>>, FALSE)
    ELSE LET a1 == [a EXCEPT !.background_type = value]
             bg == CalculateBackground(value, BackgroundBounds(a1),
                                       Energy(a1), a1.intensity)
             a2 == [a1 EXCEPT !.background = bg.value]
         IN  IF bg.raised THEN Outcome(a1, <<>>, TRUE)
             ELSE Outcome(a2, <<Emitted("changed-spectrum",
                                        Attr("background_type"), a2)>>, FALSE)

\* `any(value)`
AnyTrue(value) == \E i \in 1..Len(value) : value[i] # 0

\* spectrum.background_bounds = value
SetBackgroundBoundsOp(a, value) ==
    IF Len(value) % 2 # 0 THEN Outcome(a, <<>>, TRUE)
    ELSE LET a1 == IF ~AnyTrue(value) THEN [a EXCEPT !.background_bounds = <<>>]
                   ELSE a
         IN  IF \E i \in 1..Len(value) :
                    \/ value[i] > MaxOf(Energy(a1))
                    \/ value[i] < MinOf(Energy(a1))
             THEN Outcome(a1, <<>>, TRUE)
             ELSE LET a2 == [a1 EXCEPT !.background_bounds =
                                [i \in 1..Len(value) |->
                                    SortedNumbers(value)[i]
                                        - a1.energy_calibration]]
                      bg == CalculateBackground(a2.background_type,
                                BackgroundBounds(a2), Energy(a2), a2.intensity)
                      a3 == [a2 EXCEPT !.background = bg.value]
                  IN  IF bg.raised THEN Outcome(a2, <<>>, TRUE)
                      ELSE Outcome(a3, <<Emitted("changed-spectrum",
                                   Attr("background_bounds"), a3)>>, FALSE)

\* the mean of a slice of the intensity
Mean(seq) == Rat(SumOf(seq), Len(seq))

\* calculate_normalization_divisor
CalculateNormalizationDivisor(norm_type, norm_div, intensity) ==
    LET n == Len(intensity)
        span == MaxOf(intensity) - MinOf(intensity)
        \* the values of i at which the loop breaks
        high == {i \in 1..(n - 1) :
                    20 * Abs(intensity[n - i] - intensity[n]) > span}
        low == {i \in 1..(n - 1) :
                    20 * Abs(intensity[i + 1] - intensity[1]) > span}
        first(breaks) == CHOOSE i \in breaks : \A j \in breaks : i <= j
    IN  CASE norm_type = "highest" -> Fin(MaxOf(intensity))
          [] norm_type = "manual" -> norm_div
          [] norm_type = "high_energy" ->
                IF high = {} THEN Fin(intensity[n])
                ELSE Mean(SubSeq(intensity, n - first(high) + 1, n))
          [] norm_type = "low_energy" ->
                IF low = {} THEN Fin(intensity[1])
                ELSE Mean(SubSeq(intensity, 1, first(low)))
          [] OTHER -> Fin(1)

\* spectrum.normalization_type = value
SetNormalizationTypeOp(a, value) ==
    IF a.normalization_type = value THEN Outcome(a, <<>>, FALSE)
    ELSE IF value \notin NormTypes THEN Outcome(a, <<>>, TRUE)
    ELSE LET a1 == [a EXCEPT !.normalization_type = value]
             a2 == IF value # "manual"
                   THEN [a1 EXCEPT !.normalization_divisor =
                            CalculateNormalizationDivisor(value,
                                a1.normalization_divisor, a1.intensity)]
                   ELSE a1
         IN  Outcome(a2, <<Emitted("changed-spectrum",
                                   Attr("normalization_type"), a2)>>, FALSE)

\* SetNormalizationDivisorOp keeping the normalization type
SetNormalizationDivisorOp_KeepType(a, value) ==
    IF ~AbsPositive(value) THEN Outcome(a, <<>>, TRUE)
    ELSE LET a1 == [a EXCEPT !.normalization_divisor = value]
         IN  Outcome(a1, <<Emitted("changed-spectrum",
                                   Attr("normalization_divisor"), a1)>>, FALSE)

\* spectrum.normalization_divisor = value
SetNormalizationDivisorOp(a, value) ==
    IF ~AbsPositive(value) THEN Outcome(a, <<>>, TRUE)
    ELSE LET a1 == [a EXCEPT !.normalization_type = "manual",
                             !.normalization_divisor = value]
         IN  Outcome(a1, <<Emitted("changed-spectrum",
                                   Attr("normalization_divisor"), a1)>>, FALSE)

(***************************************************************************)
(* ModeledSpectrum and Peak (src/gxps/spectrum.py)                         *)
(*                                                                         *)
(* A peak name, a parameter name or a relation is a string; where the code *)
(* looks into a string (regular expressions, upper(), format) the string   *)
(* is the sequence of its characters, Chars[string].  A key of the         *)
(* parameter pool and a stored expression are sequences of characters.     *)
(* A Parameter of lmfit is a record [value, vary, min, max, expr] with     *)
(* expr = None when no expression is set; lmfit is modelled as documented  *)
(* for its version 1: Parameter.set assigns vary, min, max, value and expr *)
(* in this order, a value or vary=True clears the expression, an           *)
(* expression sets vary to False, and reading a value evaluates the        *)
(* expression and raises NameError for an unknown name.                    *)
(***************************************************************************)
\* the strings used, as sequences of characters
Chars ==
    ("a" :> <<"a">>) @@
    ("a_b" :> <<"a", "_", "b">>) @@
    ("B" :> <<"B">>) @@
    ("amplitude" :> <<"a", "m", "p", "l", "i", "t", "u", "d", "e">>) @@
    ("center" :> <<"c", "e", "n", "t", "e", "r">>) @@
    ("fwhm" :> <<"f", "w", "h", "m">>) @@
    ("fraction" :> <<"f", "r", "a", "c", "t", "i", "o", "n">>) @@
    ("asym" :> <<"a", "s", "y", "m">>) @@
    ("fwhm_l" :> <<"f", "w", "h", "m", "_", "l">>) @@
    ("a*3" :> <<"a", "*", "3">>) @@
    ("b*3" :> <<"b", "*", "3">>) @@
    ("x*3" :> <<"x", "*", "3">>) @@
    ("B*3" :> <<"B", "*", "3">>) @@
    ("a_b*3" :> <<"a", "_", "b", "*", "3">>)

LowerCase == <<"a", "b", "c", "d", "e", "f", "g", "h", "i", "j", "k", "l", "m",
               "n", "o", "p", "q", "r", "s", "t", "u", "v", "w", "x", "y", "z">>

UpperCase == <<"A", "B", "C", "D", "E", "F", "G", "H", "I", "J", "K", "L", "M",
               "N", "O", "P", "Q", "R", "S", "T", "U", "V", "W", "X", "Y", "Z">>

Digits == <<"0", "1", "2", "3", "4", "5", "6", "7", "8", "9">>

IsLower(c) == \E i \in 1..Len(LowerCase) : LowerCase[i] = c

IsUpper(c) == \E i \in 1..Len(UpperCase) : UpperCase[i] = c

IsDigit(c) == \E i \in 1..Len(Digits) : Digits[i] = c

\* [A-Za-z0-9]
IsAlnum(c) == IsLower(c) \/ IsUpper(c) \/ IsDigit(c)

\* \w
IsWord(c) == IsAlnum(c) \/ c = "_"

\* the value of a digit
DigitValue(c) == (CHOOSE i \in 1..Len(Digits) : Digits[i] = c) - 1

\* str.upper()
ToUpper(str) ==
    [i \in 1..Len(str) |->
        IF IsLower(str[i])
        THEN UpperCase[CHOOSE j \in 1..Len(LowerCase) : LowerCase[j] = str[i]]
        ELSE str[i]]

\* "{}_{}".format(name, param_name)
Key(name, param_name) == name \o <<"_">> \o param_name

\* the length of the longest run of characters satisfying Test from i on
Run(str, i, Test(_)) ==
    CHOOSE n \in 0..(Len(str) + 1 - i) :
        /\ \A j \in i..(i + n - 1) : Test(str[j])
        /\ i + n > Len(str) \/ ~Test(str[i + n])

\* Peak.shapes, of which two are modelled
Shapes == {"PseudoVoigt", "DoniachSunjic"}

\* the real parameter behind the alias alpha (Peak.initialize_model)
AlphaName(shape) == IF shape = "PseudoVoigt" THEN "fraction" ELSE "asym"

\* the value of alpha when none is given (Peak.initialize_model)
AlphaDefault(shape) == IF shape = "PseudoVoigt" THEN Rat(1, 2) ELSE Rat(1, 10)

\* the parameters of a peak model: the arguments of gl_sum and centered_ds
ShapeParams(shape) == {"amplitude", "center", "fwhm", AlphaName(shape)}

\* {**self._default_aliases, **self.param_aliases}
Aliases(shape) ==
    [alias \in {"area", "fwhm", "position", "alpha", "beta", "gamma"} |->
        CASE alias = "area" -> "amplitude"
          [] alias = "fwhm" -> "fwhm"
          [] alias = "position" -> "center"
          [] alias = "alpha" -> AlphaName(shape)
          [] OTHER -> None]

\* a Parameter of lmfit without expression
Parameter(value, min) ==
    [value |-> value, vary |-> TRUE, min |-> min, max |-> PosInf, expr |-> <<>>]

\* ModeledSpectrum.__init__
NewFit == [params |-> [k \in {} |-> Parameter(Fin(0), NegInf)], peaks |-> <<>>]

\* re.match(r"{}_[a-z]+".format(name), par)
MatchesName(name, par) ==
    /\ Len(par) >= Len(name) + 2
    /\ SubSeq(par, 1, Len(name)) = name
    /\ par[Len(name) + 1] = "_"
    /\ IsLower(par[Len(name) + 2])

\* peak.clear_params()
ClearParams(params, peak) ==
    [par \in {k \in DOMAIN params : ~MatchesName(Chars[peak.name], k)} |->
        params[par]]

\* the parameters of the peak in the pool
OwnKeys(peak) ==
    {Key(Chars[peak.name], Chars[real]) : real \in ShapeParams(peak.shape)}

\* `self.params += self._model.make_params()` and the three set calls of
\* Peak.initialize_model
MakeParams(params, peak, area, fwhm, position) ==
    [par \in DOMAIN params \cup OwnKeys(peak) |->
        CASE par = Key(Chars[peak.name], Chars["amplitude"]) ->
                Parameter(Fin(Abs(area)), Fin(0))
          [] par = Key(Chars[peak.name], Chars["fwhm"]) ->
                Parameter(Fin(Abs(fwhm)), Fin(0))
          [] par = Key(Chars[peak.name], Chars["center"]) ->
                Parameter(Fin(Abs(position)), Fin(0))
          [] par = Key(Chars[peak.name], Chars[AlphaName(peak.shape)]) ->
                Parameter(AlphaDefault(peak.shape), Fin(0))
          [] OTHER -> params[par]]

\* `name in [peak.name for peak in self._peaks]`
HasPeak(peaks, name) == \E i \in 1..Len(peaks) : peaks[i].name = name

\* AddPeakOp building the peak before it looks for the name
AddPeakOp_BuildFirst(f, name, shape, area, fwhm, position) ==
    LET peak == [name |-> name, shape |-> shape]
        cleared == ClearParams(f.params, peak)
    IN  IF HasPeak(f.peaks, name) \/ shape \notin Shapes
        THEN Outcome([f EXCEPT !.params = cleared], <<>>, TRUE)
        ELSE LET f1 == [params |-> MakeParams(cleared, peak, area, fwhm,
                                              position),
                        peaks |-> Append(f.peaks, peak)]
             IN  Outcome(f1, <<Emitted("changed-fit", Attr("peaks"), f1)>>,
                         FALSE)

\* spectrum.add_peak(name, shape=shape, area=area, fwhm=fwhm,
\* position=position)
AddPeakOp(f, name, shape, area, fwhm, position) ==
    IF HasPeak(f.peaks, name) THEN Outcome(f, <<>>, TRUE)
    ELSE LET peak == [name |-> name, shape |-> shape]
             cleared == ClearParams(f.params, peak)
         IN  IF shape \notin Shapes
             THEN Outcome([f EXCEPT !.params = cleared], <<>>, TRUE)
             ELSE LET f1 == [params |-> MakeParams(cleared, peak, area, fwhm,
                                                   position),
                             peaks |-> Append(f.peaks, peak)]
                  IN  Outcome(f1, <<Emitted("changed-fit", Attr("peaks"), f1)>>,
                              FALSE)

\* x < y for numbers
Less(x, y) ==
    CASE x.kind = "nan" \/ y.kind = "nan" -> FALSE
      [] x.kind = "inf" -> x.n < 0 /\ ~(y.kind = "inf" /\ y.n < 0)
      [] y.kind = "inf" -> y.n > 0
      [] OTHER -> x.n * y.d < y.n * x.d

\* the bounds of a Parameter applied to its value
Clip(v, min, max) == IF Less(v, min) THEN min ELSE IF Less(max, v) THEN max ELSE v

\* an expression of the form name or name*digit: the name, the factor and
\* whether the expression has this form (asteval raises SyntaxError if not)
ParseExpr(expr) ==
    LET n == Run(expr, 1, IsWord)
        rest == SubSeq(expr, n + 1, Len(expr))
    IN  [ok |-> /\ n > 0
                /\ ~IsDigit(expr[1])
                /\ \/ rest = <<>>
                   \/ Len(rest) = 2 /\ rest[1] = "*" /\ IsDigit(rest[2]),
         symbol |-> SubSeq(expr, 1, n),
         factor |-> IF Len(rest) = 2 /\ IsDigit(rest[2])
                    THEN DigitValue(rest[2]) ELSE 1]

\* Parameter.value of lmfit: the stored value, or the expression evaluated
\* over the pool (NameError for a name that is not in the pool)
RECURSIVE Evaluate(_, _, _)
Evaluate(params, par, depth) ==
    LET p == params[par]
        e == ParseExpr(p.expr)
    IN  IF p.expr = <<>>
        THEN [raised |-> FALSE, value |-> Clip(p.value, p.min, p.max)]
        ELSE IF ~e.ok \/ e.symbol \notin DOMAIN params \/ depth = 0
        THEN [raised |-> TRUE, value |-> p.value]
        ELSE LET v == Evaluate(params, e.symbol, depth - 1)
             IN  IF v.raised THEN [raised |-> TRUE, value |-> p.value]
                 ELSE [raised |-> FALSE,
                       value |-> Clip(Rat(v.value.n * e.factor, v.value.d),
                                      p.min, p.max)]

\* how deep expressions refer to each other at most
MaxDepth == 3

\* Parameters.valuesdict() of lmfit: evaluates every parameter
ValuesDict(params) ==
    [raised |-> \E par \in DOMAIN params :
                    Evaluate(params, par, MaxDepth).raised,
     params |-> [par \in DOMAIN params |->
                    [params[par] EXCEPT
                        !.value = Evaluate(params, par, MaxDepth).value]]]

\* an argument that is given, and one that is None
Given(v) == [given |-> TRUE, v |-> v]

NotGiven == [given |-> FALSE, v |-> NaN]

\* Parameter.set(value, vary, min, max, expr) of lmfit
ParamSet(p, value, vary, min, max, expr) ==
    LET p1 == IF vary.given
              THEN [p EXCEPT !.vary = vary.v,
                             !.expr = IF vary.v THEN <<>> ELSE @]
              ELSE p
        p2 == IF min.given THEN [p1 EXCEPT !.min = min.v] ELSE p1
        p3 == IF max.given THEN [p2 EXCEPT !.max = max.v] ELSE p2
        p4 == IF value.given
              THEN [p3 EXCEPT !.value = value.v, !.expr = <<>>] ELSE p3
    IN  IF expr.given
        THEN [p4 EXCEPT !.expr = expr.v,
                        !.vary = IF expr.v # <<>> THEN FALSE ELSE @]
        ELSE p4

\* a match of \b[A-Za-z] at position i
StartsIdentifier(str, i) ==
    /\ IsLower(str[i]) \/ IsUpper(str[i])
    /\ i = 1 \/ ~IsWord(str[i - 1])

\* param_repl of Peak.expr2relation applied over the expression from i on,
\* for a peak of the spectrum
RECURSIVE Expr2RelationFrom(_, _)
Expr2RelationFrom(expr, i) ==
    IF i > Len(expr) THEN <<>>
    ELSE LET n == Run(expr, i, IsAlnum)
             m == Run(expr, i + n + 1, LAMBDA c : IsLower(c) \/ c = "_")
         IN  IF /\ StartsIdentifier(expr, i)
                /\ i + n <= Len(expr)
                /\ expr[i + n] = "_"
                /\ m > 0
             THEN SubSeq(expr, i, i + n - 1)
                    \o Expr2RelationFrom(expr, i + n + 1 + m)
             ELSE <<expr[i]>> \o Expr2RelationFrom(expr, i + 1)

\* peak.expr2relation(expr)
Expr2Relation(expr) == Expr2RelationFrom(expr, 1)

\* the first peak whose name in upper case is the identifier in upper case
Others(peaks, name) ==
    {i \in 1..Len(peaks) : ToUpper(Chars[peaks[i].name]) = name}

\* name_repl of Peak.relation2expr applied over the relation from i on
RECURSIVE Relation2ExprFrom(_, _, _, _, _)
Relation2ExprFrom(peaks, peak, relation, param_alias, i) ==
    IF i > Len(relation) THEN [raised |-> FALSE, out |-> <<>>]
    ELSE IF ~StartsIdentifier(relation, i)
    THEN LET rest == Relation2ExprFrom(peaks, peak, relation, param_alias,
                                       i + 1)
         IN  [raised |-> rest.raised, out |-> <<relation[i]>> \o rest.out]
    ELSE LET n == Run(relation, i, IsAlnum)
             name == ToUpper(SubSeq(relation, i, i + n - 1))
             rest == Relation2ExprFrom(peaks, peak, relation, param_alias,
                                       i + n)
             other == peaks[CHOOSE j \in Others(peaks, name) :
                               \A k \in Others(peaks, name) : j <= k]
         IN  IF name = ToUpper(Chars[peak.name])
             THEN [raised |-> TRUE, out |-> <<>>]
             ELSE [raised |-> rest.raised,
                   out |-> (IF Others(peaks, name) # {}
                            THEN Key(name,
                                     Chars[Aliases(other.shape)[param_alias]])
                            ELSE name) \o rest.out]

\* peak.relation2expr(relation, param_alias)
Relation2Expr(peaks, peak, relation, param_alias) ==
    Relation2ExprFrom(peaks, peak, relation, param_alias, 1)

\* peak.get_constraints(param_alias), for a parameter that is in the pool
GetConstraints(params, par) ==
    [value |-> Evaluate(params, par, MaxDepth).value,
     min |-> params[par].min,
     max |-> params[par].max,
     vary |-> params[par].vary,
     expr |-> Expr2Relation(params[par].expr)]

\* peak.set_constraints(param_alias, value=value, expr=expr) with vary, min
\* and max left at their defaults None, 0 and np.inf
SetConstraintsOp(f, peak, param_alias, value, expr) ==
    LET vary == ~value.given /\ expr = <<>>
        real == Aliases(peak.shape)[param_alias]
        par == Key(Chars[peak.name], Chars[real])
        old == GetConstraints(f.params, par)
        changed == \/ value.given /\ value.v # old.value
                   \/ vary # old.vary
                   \/ Fin(0) # old.min
                   \/ PosInf # old.max
                   \/ expr # old.expr
        once(f1) == <<Emitted("changed-peak", NoKwargs, f1)>>
        rewritten == Relation2Expr(f.peaks, peak, expr, param_alias)
        tried == [f.params EXCEPT ![par] =
                    ParamSet(@, NotGiven, NotGiven, Given(Fin(0)),
                             Given(PosInf), Given(rewritten.out))]
        restored == [f EXCEPT !.params =
                        [tried EXCEPT ![par] =
                            ParamSet(@, Given(old.value), Given(old.vary),
                                     Given(old.min), Given(old.max),
                                     Given(<<>>))]]
    IN  IF real = None THEN Outcome(f, <<>>, FALSE)
        ELSE IF par \notin DOMAIN f.params
                    \/ Evaluate(f.params, par, MaxDepth).raised
        THEN Outcome(f, <<>>, TRUE)
        ELSE IF ~changed THEN Outcome(f, <<>>, FALSE)
        ELSE IF expr = <<>>
        THEN LET f1 == [f EXCEPT !.params[par] =
                          ParamSet(@, value, Given(vary), Given(Fin(0)),
                                   Given(PosInf), Given(<<>>))]
             IN  Outcome(f1, once(f1), FALSE)
        ELSE IF rewritten.raised THEN Outcome(f, <<>>, TRUE)
        ELSE IF ValuesDict(tried).raised
        THEN Outcome(restored, once(restored) \o once(restored), FALSE)
        ELSE LET f1 == [f EXCEPT !.params = ValuesDict(tried).params]
             IN  Outcome(f1, once(f1), FALSE)

\* spectrum.remove_peak(peak), for a peak of the spectrum
RemovePeakOp(f, peak) ==
    LET f1 == [params |-> ClearParams(f.params, peak),
               peaks |-> ListRemove(f.peaks, peak)]
    IN  Outcome(f1, <<Emitted("changed-fit", Attr("peaks"), f1)>>, FALSE)

\* abs(value) of a number
AbsNumber(v) == IF v.kind = "nan" THEN v ELSE [v EXCEPT !.n = Abs(@)]

\* Peak.initialize_model(area, fwhm, position, alpha, None, None) for a peak
\* of one of the shapes: the peak's parameters are cleared and made anew
InitializeModel(params, peak, area, fwhm, position, alpha) ==
    [par \in DOMAIN ClearParams(params, peak) \cup OwnKeys(peak) |->
        CASE par = Key(Chars[peak.name], Chars["amplitude"]) ->
                Parameter(AbsNumber(area), Fin(0))
          [] par = Key(Chars[peak.name], Chars["fwhm"]) ->
                Parameter(AbsNumber(fwhm), Fin(0))
          [] par = Key(Chars[peak.name], Chars["center"]) ->
                Parameter(AbsNumber(position), Fin(0))
          [] par = Key(Chars[peak.name], Chars[AlphaName(peak.shape)]) ->
                Parameter(alpha, Fin(0))
          [] OTHER -> params[par]]

\* peak.set_constraints(param_alias, **constraints) with every argument
\* given, as the shape setter calls it with a dict of get_constraints
SetConstraintsWith(f, peak, param_alias, old) ==
    LET real == Aliases(peak.shape)[param_alias]
        par == Key(Chars[peak.name], Chars[real])
        now == GetConstraints(f.params, par)
        once(f1) == <<Emitted("changed-peak", NoKwargs, f1)>>
        rewritten == Relation2Expr(f.peaks, peak, old.expr, param_alias)
        tried == [f.params EXCEPT ![par] =
                    ParamSet(@, NotGiven, NotGiven, Given(Fin(0)),
                             Given(PosInf), Given(rewritten.out))]
        restored == [f EXCEPT !.params =
                        [tried EXCEPT ![par] =
                            ParamSet(@, Given(now.value), Given(now.vary),
                                     Given(now.min), Given(now.max),
                                     Given(<<>>))]]
    IN  IF real = None THEN Outcome(f, <<>>, FALSE)
        ELSE IF par \notin DOMAIN f.params
                    \/ Evaluate(f.params, par, MaxDepth).raised
        THEN Outcome(f, <<>>, TRUE)
        ELSE IF old = now THEN Outcome(f, <<>>, FALSE)
        ELSE IF old.expr = <<>>
        THEN LET f1 == [f EXCEPT !.params[par] =
                          ParamSet(@, Given(old.value), Given(old.vary),
                                   Given(old.min), Given(old.max),
                                   Given(<<>>))]
             IN  Outcome(f1, once(f1), FALSE)
        ELSE IF rewritten.raised THEN Outcome(f, <<>>, TRUE)
        ELSE IF ValuesDict(tried).raised
        THEN Outcome(restored, once(restored) \o once(restored), FALSE)
        ELSE LET f1 == [f EXCEPT !.params = ValuesDict(tried).params]
             IN  Outcome(f1, once(f1), FALSE)

\* the aliases every shape has
CommonAliases == <<"fwhm", "area", "position", "alpha">>

\* the element of a set of one
Only(set) == CHOOSE x \in set : TRUE

\* the set_constraints calls of the shape setter from the n-th on, each on
\* the data the one before has left; an exception ends them
RECURSIVE ReapplyConstraints(_, _, _, _, _)
ReapplyConstraints(f, peak, olds, emits, n) ==
    IF n > Len(CommonAliases) THEN Outcome(f, emits, FALSE)
    ELSE Only({IF r.raised THEN Outcome(r.after, emits \o r.emits, TRUE)
               ELSE ReapplyConstraints(r.after, peak, olds, emits \o r.emits,
                                       n + 1) :
               r \in {SetConstraintsWith(f, peak, CommonAliases[n], olds[n])}})

\* the constraints of the common aliases of a peak can be read
ConstraintsReadable(f, peak) ==
    \A n \in 1..Len(CommonAliases) :
        LET par == Key(Chars[peak.name],
                       Chars[Aliases(peak.shape)[CommonAliases[n]]])
        IN  par \in DOMAIN f.params /\ ~Evaluate(f.params, par, MaxDepth).raised

\* the six get_constraints calls of the shape setter, those of the aliases
\* every shape has
SavedConstraints(f, peak) ==
    [n \in 1..Len(CommonAliases) |->
        GetConstraints(f.params,
                       Key(Chars[peak.name],
                           Chars[Aliases(peak.shape)[CommonAliases[n]]]))]

\* the shape setter from the assignment of _shape to initialize_model
Reshaped(f, i, value, olds) ==
    [params |-> InitializeModel(f.params, [f.peaks[i] EXCEPT !.shape = value],
                                olds[2].value, olds[1].value, olds[3].value,
                                olds[4].value),
     peaks |-> [f.peaks EXCEPT ![i].shape = value]]

\* SetShapeFrom that makes the parameters anew and leaves them at that
SetShapeFrom_Fresh(f, i, value, olds) ==
    Only({Outcome(f0, <<Emitted("changed-peak", NoKwargs, f0)>>, FALSE) :
          f0 \in {Reshaped(f, i, value, olds)}})

\* the shape setter once the constraints are read and the shape is known to
\* be valid: initialize_model, the set_constraints calls and the emit
SetShapeFrom(f, i, value, olds) ==
    Only({IF r.raised THEN r
          ELSE Outcome(r.after,
                       r.emits \o <<Emitted("changed-peak", NoKwargs, r.after)>>,
                       FALSE) :
          r \in {ReapplyConstraints(f0, f0.peaks[i], olds, <<>>, 1) :
                 f0 \in {Reshaped(f, i, value, olds)}}})

\* peak.shape = value, for the i-th peak of the spectrum; beta and gamma are
\* aliases no shape has, get_constraints returns the defaults for them and
\* set_constraints skips them
SetShapeOp(f, i, value) ==
    IF f.peaks[i].shape = value THEN Outcome(f, <<>>, FALSE)
    ELSE IF ~ConstraintsReadable(f, f.peaks[i]) THEN Outcome(f, <<>>, TRUE)
    ELSE IF value \notin Shapes THEN Outcome(f, <<>>, TRUE)
    ELSE Only({SetShapeFrom(f, i, value, olds) :
               olds \in {SavedConstraints(f, f.peaks[i])}})

\* the key of the parameter c of ConstantModel(prefix="BASE_")
BaseKey == <<"B", "A", "S", "E", "_", "c">>

\* the `model` property of ModeledSpectrum: `self.params += make_params()`
\* puts the parameter BASE_c, fixed at 0, into the pool
WithBase(params) ==
    [par \in DOMAIN params \cup {BaseKey} |->
        IF par = BaseKey
        THEN [value |-> Fin(0), vary |-> FALSE, min |-> NegInf,
              max |-> PosInf, expr |-> <<>>]
        ELSE params[par]]

\* what the solver can do: raise, return a result that moved the free
\* parameters, or return one that left them where they were
SolverOutcomes == {"raises", "converged", "aborted"}

\* result.params of a solver run: the free parameters moved by one when it
\* converged, the expressions evaluated over them
FitResult(params, result) ==
    ValuesDict([par \in DOMAIN params |->
                  IF params[par].vary /\ params[par].expr = <<>>
                        /\ result = "converged"
                  THEN [params[par] EXCEPT !.value =
                          Clip(Rat(@.n + @.d, @.d), params[par].min,
                               params[par].max)]
                  ELSE params[par]]).params

\* DoFitOp emitting before the pool is updated
DoFitOp_EmitFirst(f, result) ==
    LET based == [f EXCEPT !.params = WithBase(f.params)]
    IN  IF result = "raises" \/ ValuesDict(based.params).raised
        THEN Outcome(based, <<>>, TRUE)
        ELSE Outcome([based EXCEPT !.params = FitResult(@, result)],
                     <<Emitted("changed-fit", NoKwargs, based)>>, FALSE)

\* spectrum.do_fit(), with what the solver does as result; a pool with an
\* expression that cannot be evaluated makes the solver raise
DoFitOp(f, result) ==
    LET based == [f EXCEPT !.params = WithBase(f.params)]
    IN  IF result = "raises" \/ ValuesDict(based.params).raised
        THEN Outcome(based, <<>>, TRUE)
        ELSE LET f1 == [based EXCEPT !.params = FitResult(@, result)]
             IN  Outcome(f1, <<Emitted("changed-fit", NoKwargs, f1)>>, FALSE)

\* energy.argsort(): the indices in the order of the values, equal values in
\* the order they have in the array
ArgSort(energy) ==
    [k \in 1..Len(energy) |->
        CHOOSE i \in 1..Len(energy) :
            Cardinality({j \in 1..Len(energy) :
                            \/ energy[j] < energy[i]
                            \/ energy[j] = energy[i] /\ j < i}) = k - 1]

\* processing.make_increasing(energy, intensity)
MakeIncreasing(energy, intensity) ==
    [energy |-> [k \in 1..Len(energy) |-> energy[ArgSort(energy)[k]]],
     intensity |-> [k \in 1..Len(energy) |-> intensity[ArgSort(energy)[k]]]]

\* np.isclose(a, b) with rtol=1e-05 and atol=1e-08, for integers
IsClose(a, b) == Abs(a - b) * 100000000 <= 1 + 1000 * Abs(b)

\* np.unique(np.diff(energy)), as a set
Spacings(energy) == {energy[i + 1] - energy[i] : i \in 1..(Len(energy) - 1)}

\* the least element of a set of integers
Least(set) == CHOOSE v \in set : \A w \in set : v <= w

\* np.linspace(start, stop, num)
LinSpace(start, stop, num) ==
    [k \in 1..num |->
        IF num = 1 THEN Fin(start)
        ELSE Rat(start * (num - 1) + (k - 1) * (stop - start), num - 1)]

\* np.interp(x, xp, fp) at one x within the range of the increasing xp
Interp(x, xp, fp) ==
    LET k == CHOOSE j \in 1..(Len(xp) - 1) :
                 /\ ~Less(x, Fin(xp[j]))
                 /\ ~Less(Fin(xp[j + 1]), x)
        slope == Rat(fp[k + 1] - fp[k], xp[k + 1] - xp[k])
    IN  Rat(fp[k] * x.d * slope.d + (x.n - xp[k] * x.d) * slope.n,
            x.d * slope.d)

\* processing.make_equidistant(energy, intensity): spacings is an array of
\* numpy, which has no method remove, and min() of an empty array raises
MakeEquidistant(energy, intensity) ==
    LET spacings == Spacings(energy)
        first == energy[1]
        last == energy[Len(energy)]
        samples == (last - first) \div Least(spacings)
        spaced == LinSpace(first, last, samples)
    IN  IF spacings = {} \/ IsClose(0, Least(spacings))
        THEN [raised |-> TRUE, energy |-> <<>>, intensity |-> <<>>]
        ELSE IF \A spacing \in spacings : IsClose(spacing, Least(spacings))
        THEN [raised |-> FALSE,
              energy |-> [k \in 1..Len(energy) |-> Fin(energy[k])],
              intensity |-> [k \in 1..Len(energy) |-> Fin(intensity[k])]]
        ELSE [raised |-> FALSE,
              energy |-> spaced,
              intensity |-> [k \in 1..samples |->
                                Interp(spaced[k], energy, intensity)]]

\* Spectrum(energy=energy, intensity=intensity, ...) for one-dimensional
\* arrays of integers; the arrays of the new spectrum are fractions
NewSpectrumOp(energy, intensity) ==
    LET sorted == MakeIncreasing(energy, intensity)
        made == MakeEquidistant(sorted.energy, sorted.intensity)
    IN  IF Len(energy) # Len(intensity) THEN Outcome(NewSpectrum, <<>>, TRUE)
        ELSE IF made.raised THEN Outcome(NewSpectrum, <<>>, TRUE)
        ELSE Outcome([NewSpectrum EXCEPT
                        !.energy = made.energy,
                        !.intensity = made.intensity,
                        !.background = [k \in 1..Len(made.energy) |-> Fin(0)]],
                     <<>>, FALSE)

\* the data before any spectrum is loaded
InitData ==
    /\ spectra = <<>>
    /\ attrs = NewSpectrum
    /\ fit = NewFit
    /\ observed = <<>>

(***************************************************************************)
(* Actions                                                                 *)
(***************************************************************************)
\* bus.subscribe(callback, signal, priority)
Subscribe(id, callback, signal, priority) ==
    /\ IF signal = "all"
       THEN /\ bus' = bus
            /\ lastOp' = Op("subscribe", id, signal, callback, TRUE)
       ELSE /\ bus' = [bus EXCEPT ![id] =
                          SubscribeOp(bus[id], callback, signal, priority)]
            /\ lastOp' = Op("subscribe", id, signal, callback, FALSE)
    /\ calls' = <<>>
    /\ received' = <<>>
    /\ ops' = ops + 1
    /\ UNCHANGED data
    /\ UNCHANGED <<queues, sinceDispatch, unregistered>>

\* bus.set_policy(policy, signal)
SetPolicy(id, policy, signal) ==
    /\ IF policy \notin Policies
       THEN /\ bus' = bus
            /\ calls' = <<>>
            /\ sinceDispatch' = sinceDispatch
            /\ lastOp' = Op("set_policy", id, signal, policy, TRUE)
       ELSE LET r == SetPolicyOp(id, bus[id], policy, signal)
            IN  /\ bus' = [bus EXCEPT ![id] = r.bus]
                /\ calls' = r.calls
                /\ sinceDispatch' = [sinceDispatch EXCEPT ![id] =
                                        TrackFire(@, r.calls)]
                /\ lastOp' = Op("set_policy", id, signal, policy, FALSE)
    /\ received' = <<>>
    /\ ops' = ops + 1
    /\ UNCHANGED data
    /\ UNCHANGED <<queues, unregistered>>

\* bus.fire(signal)
Fire(id, signal) ==
    /\ LET r == FireOp(id, bus[id], signal)
       IN  /\ bus' = [bus EXCEPT ![id] = r.bus]
           /\ calls' = r.calls
           /\ sinceDispatch' = [sinceDispatch EXCEPT ![id] =
                                   TrackFire(@, r.calls)]
    /\ lastOp' = Op("fire", id, signal, "", FALSE)
    /\ received' = <<>>
    /\ ops' = ops + 1
    /\ UNCHANGED data
    /\ UNCHANGED <<queues, unregistered>>

\* CanEmit without the check
CanEmit_Any(signal) == TRUE

\* `signal in self._signals` of Observable.emit
CanEmit(signal) == signal \in DeclaredSignals

\* observable.emit(signal, **Kwargs(kind))
Emit(obs, signal, kind) ==
    /\ IF ~CanEmit(signal)
       THEN /\ bus' = bus
            /\ calls' = <<>>
            /\ received' = <<>>
            /\ sinceDispatch' = sinceDispatch
            /\ lastOp' = Op("emit", obs, signal, kind, TRUE)
       ELSE LET event == Event(signal, <<obs>>, Kwargs(kind))
                r == EmitLoop([bus |-> bus, calls |-> <<>>, received |-> <<>>,
                               since |-> sinceDispatch],
                              queues[obs], event, 1)
            IN  /\ bus' = r.bus
                /\ calls' = r.calls
                /\ received' = r.received
                /\ sinceDispatch' = r.since
                /\ lastOp' = Op("emit", obs, signal, kind, FALSE)
    /\ ops' = ops + 1
    /\ UNCHANGED data
    /\ UNCHANGED <<queues, unregistered>>

\* observable.register_queue(queue)
RegisterQueue(obs, id) ==
    /\ queues' = [queues EXCEPT ![obs] = Append(@, id)]
    /\ unregistered' = [unregistered EXCEPT ![obs] = @ \ {id}]
    /\ lastOp' = Op("register_queue", obs, "", id, FALSE)
    /\ calls' = <<>>
    /\ received' = <<>>
    /\ ops' = ops + 1
    /\ UNCHANGED data
    /\ UNCHANGED <<bus, sinceDispatch>>

\* observable.unregister_queue(queue)
UnregisterQueue(obs, id) ==
    /\ IF ~InList(queues[obs], id)
       THEN /\ UNCHANGED <<queues, unregistered>>
            /\ lastOp' = Op("unregister_queue", obs, "", id, TRUE)
       ELSE /\ queues' = [queues EXCEPT ![obs] = ListRemove(@, id)]
            /\ unregistered' = [unregistered EXCEPT ![obs] = @ \cup {id}]
            /\ lastOp' = Op("unregister_queue", obs, "", id, FALSE)
    /\ calls' = <<>>
    /\ received' = <<>>
    /\ ops' = ops + 1
    /\ UNCHANGED data
    /\ UNCHANGED <<bus, sinceDispatch>>

(***************************************************************************)
(* Spec: one bus with both observables registered (as GXPS.do_startup      *)
(* sets up), driven by subscribe, set_policy, emit and fire.               *)
(***************************************************************************)
NoHistory(ids) == [id \in ids |-> [signal \in DeclaredSignals |-> <<>>]]

Init ==
    /\ \E default_policy \in Policies :
          bus = [id \in {"bus"} |-> NewBus(default_policy)]
    /\ queues = [obs \in Observables |-> <<"bus">>]
    /\ calls = <<>>
    /\ received = <<>>
    /\ lastOp = Op("init", "", "", "", FALSE)
    /\ ops = 0
    /\ sinceDispatch = NoHistory({"bus"})
    /\ unregistered = [obs \in Observables |-> {}]
    /\ InitData

Next ==
    \/ \E callback \in Callbacks, signal \in Signals \cup {"all"},
          priority \in Priorities :
          ops < MaxOps /\ Subscribe("bus", callback, signal, priority)
    \/ \E policy \in Policies \cup {UnknownPolicy},
          signal \in Signals \cup {"all"} :
          ops < MaxOps /\ SetPolicy("bus", policy, signal)
    \/ \E signal \in Signals \cup {"all"} :
          ops < MaxOps /\ Fire("bus", signal)
    \/ \E obs \in Observables, signal \in Signals, kind \in Kinds :
          ops < MaxOps /\ Emit(obs, signal, kind)

Spec == Init /\ [][Next]_vars

\* operations in one run of SpecSubs
MaxSubOps == 3

\* bus.unsubscribe(callback, signal)
Unsubscribe(id, callback, signal) ==
    /\ LET r == UnsubscribeOp(bus[id], callback, signal)
       IN  /\ bus' = [bus EXCEPT ![id] = r.bus]
           /\ lastOp' = Op("unsubscribe", id, signal, callback, r.raised)
    /\ calls' = <<>>
    /\ received' = <<>>
    /\ ops' = ops + 1
    /\ UNCHANGED data
    /\ UNCHANGED <<queues, sinceDispatch, unregistered>>

NextSubs ==
    \/ \E callback \in Callbacks, signal \in Signals, priority \in Priorities :
          ops < MaxSubOps /\ Subscribe("bus", callback, signal, priority)
    \/ \E callback \in Callbacks, signal \in Signals \cup {"all"} :
          ops < MaxSubOps /\ Unsubscribe("bus", callback, signal)
    \/ \E signal \in Signals \cup {"all"} :
          ops < MaxSubOps /\ Fire("bus", signal)
    \/ \E obs \in Observables, signal \in Signals, kind \in Kinds :
          ops < MaxSubOps /\ Emit(obs, signal, kind)

SpecSubs == Init /\ [][NextSubs]_vars

\* operations in one run of SpecDispatch
MaxDispatchOps == 3

\* the priorities alter_project is subscribed with: before and after cb1
AlterPriorities == {1, 10}

\* an operation on the bus whose subscribers have run, with outcome r
Dispatched(name, target, signal, arg, r) ==
    /\ bus' = [bus EXCEPT !["bus"] = r.bus]
    /\ calls' = r.calls
    /\ observed' = r.emitted
    /\ received' = <<>>
    /\ lastOp' = Op(name, target, signal, arg, r.raised)
    /\ ops' = ops + 1
    /\ UNCHANGED <<queues, sinceDispatch, unregistered, spectra, attrs, fit>>

\* a property setter of the spectrum emits changed-spectrum while
\* project_isaltered is False or True
EmitSpectrum(unaltered) ==
    LET event == Event("changed-spectrum", <<"sp1">>, Kwargs("attr"))
    IN  Dispatched("emit", "sp1", "changed-spectrum", unaltered,
                   EnqueueR(Dispatching(bus["bus"], <<event>>, unaltered),
                            event))

\* state.current_project = value: project_isaltered is set to False and
\* changed-project is emitted with attr="filename"
SetCurrentProject ==
    LET event == Event("changed-project", <<"state">>,
                       [k \in {"attr"} |-> Scalar("filename")])
    IN  Dispatched("emit", "state", "changed-project", TRUE,
                   EnqueueR(Dispatching(bus["bus"], <<event>>, TRUE), event))

\* bus.fire(signal) while project_isaltered is False or True
FireDispatch(signal, unaltered) ==
    Dispatched("fire", "bus", signal, unaltered,
               FireR(Dispatching(bus["bus"], <<>>, unaltered), signal))

\* a bus with cb1 subscribed to both signals and State.alter_project
\* subscribed to one of them, before or after cb1
InitDispatch ==
    /\ \E default_policy \in {"accumulate", "fire"}, signal \in StateSignals,
          priority \in AlterPriorities :
          bus = [id \in {"bus"} |->
                    SubscribeOp(
                        SubscribeOp(
                            SubscribeOp(NewBus(default_policy), "cb1",
                                        "changed-spectrum", 5),
                            "cb1", "changed-project", 5),
                        "alter_project", signal, priority)]
    /\ queues = [obs \in {"sp1", "state"} |-> <<"bus">>]
    /\ calls = <<>>
    /\ received = <<>>
    /\ lastOp = Op("init", "", "", "", FALSE)
    /\ ops = 0
    /\ sinceDispatch = [id \in {"bus"} |-> [signal \in StateSignals |-> <<>>]]
    /\ unregistered = [obs \in {"sp1", "state"} |-> {}]
    /\ InitData

NextDispatch ==
    \/ \E unaltered \in BOOLEAN :
          ops < MaxDispatchOps /\ EmitSpectrum(unaltered)
    \/ ops < MaxDispatchOps /\ SetCurrentProject
    \/ \E signal \in StateSignals \cup {"all"}, unaltered \in BOOLEAN :
          ops < MaxDispatchOps /\ FireDispatch(signal, unaltered)

SpecDispatch == InitDispatch /\ [][NextDispatch]_vars

(***************************************************************************)
(* SpecObs: two buses and one emitting observable, driven by               *)
(* register_queue, unregister_queue, emit (also of an undeclared signal),  *)
(* subscribe and fire.                                                     *)
(***************************************************************************)
BusIds == {"bus1", "bus2"}

InitObs ==
    /\ \E default_policy \in [BusIds -> Policies] :
          bus = [id \in BusIds |-> NewBus(default_policy[id])]
    /\ queues = [obs \in Observables |-> <<>>]
    /\ calls = <<>>
    /\ received = <<>>
    /\ lastOp = Op("init", "", "", "", FALSE)
    /\ ops = 0
    /\ sinceDispatch = NoHistory(BusIds)
    /\ unregistered = [obs \in Observables |-> {}]
    /\ InitData

NextObs ==
    \/ \E id \in BusIds : ops < MaxObsOps /\ RegisterQueue("sp1", id)
    \/ \E id \in BusIds : ops < MaxObsOps /\ UnregisterQueue("sp1", id)
    \/ \E signal \in {"changed-spectrum", UndeclaredSignal},
          kind \in {"attr", "noqueue"} :
          ops < MaxObsOps /\ Emit("sp1", signal, kind)
    \/ \E id \in BusIds :
          ops < MaxObsOps /\ Subscribe(id, "cb1", "changed-spectrum", 5)
    \/ \E id \in BusIds : ops < MaxObsOps /\ Fire(id, "all")

SpecObs == InitObs /\ [][NextObs]_vars

(***************************************************************************)
(* SpecContainer: the SpectrumContainer registered with one bus that has a *)
(* subscriber for changed-spectra, driven by add_spectrum, remove_spectrum *)
(* and clear.                                                              *)
(***************************************************************************)
\* operations in one run of SpecContainer
MaxContainerOps == 4

\* container.add_spectrum(spectrum), or container.add_spectrum(**specdict)
\* when spectrum is None: a new ModeledSpectrum is built
AddSpectrum(spectrum) ==
    /\ spectrum = None => \E s \in Observables : ~InList(spectra, s)
    /\ LET s == IF spectrum # None THEN spectrum
                ELSE CHOOSE new \in Observables : ~InList(spectra, new)
           r == AddSpectrumOp(spectra, s)
       IN  /\ spectra' = r.after
           /\ Notify("data", "add_spectrum", s, r)
    /\ UNCHANGED <<attrs, fit>>

\* container.remove_spectrum(spectrum)
RemoveSpectrum(spectrum) ==
    /\ LET r == RemoveSpectrumOp(spectra, spectrum)
       IN  /\ spectra' = r.after
           /\ Notify("data", "remove_spectrum", spectrum, r)
    /\ UNCHANGED <<attrs, fit>>

\* container.clear()
Clear ==
    /\ LET r == ClearOp(spectra)
       IN  /\ spectra' = r.after
           /\ Notify("data", "clear", "", r)
    /\ UNCHANGED <<attrs, fit>>

\* the histories of a bus over the given signals
NoHistoryOf(ids, signals) == [id \in ids |-> [signal \in signals |-> <<>>]]

InitContainer ==
    /\ \E default_policy \in Policies :
          bus = [id \in {"bus"} |->
                    SubscribeOp(NewBus(default_policy), "cb1",
                                "changed-spectra", 5)]
    /\ queues = [obs \in {"data"} |-> <<"bus">>]
    /\ calls = <<>>
    /\ received = <<>>
    /\ lastOp = Op("init", "", "", "", FALSE)
    /\ ops = 0
    /\ sinceDispatch = NoHistoryOf({"bus"}, ContainerSignals)
    /\ unregistered = [obs \in {"data"} |-> {}]
    /\ InitData

NextContainer ==
    \/ \E spectrum \in Observables \cup {None} :
          ops < MaxContainerOps /\ AddSpectrum(spectrum)
    \/ \E spectrum \in Observables :
          ops < MaxContainerOps /\ RemoveSpectrum(spectrum)
    \/ ops < MaxContainerOps /\ Clear

SpecContainer == InitContainer /\ [][NextContainer]_vars

(***************************************************************************)
(* SpecSpectrum: one spectrum registered with the bus of GXPS.do_startup   *)
(* (policy fire) that has a subscriber for changed-spectrum, driven by its *)
(* property setters.                                                       *)
(***************************************************************************)
\* operations in one run of SpecSpectrum
MaxSpectrumOps == 4

\* values assigned to energy_calibration
Calibrations == {Fin(-1), Fin(2), PosInf, NegInf}

\* values assigned to background_type
BgTypeInputs == {"none", "linear", "tougaard", "polynomial"}

\* values assigned to background_bounds
BoundsInputs == {<<>>, <<2>>, <<0, 0>>, <<3, 1>>, <<2, 9>>}

\* values assigned to normalization_type
NormTypeInputs == NormTypes \cup {"area"}

\* values assigned to normalization_divisor
Divisors == {Fin(2), Fin(0), Fin(-2), PosInf, NaN}

\* a property setter of the spectrum sp1 with the outcome r
SpectrumCall(name, arg, r) ==
    /\ attrs' = r.after
    /\ Notify("sp1", name, arg, r)
    /\ UNCHANGED <<spectra, fit>>

\* spectrum.energy_calibration = value
SetEnergyCalibration(value) ==
    SpectrumCall("energy_calibration", value,
                 SetEnergyCalibrationOp(attrs, value))

\* spectrum.background_type = value
SetBackgroundType(value) ==
    SpectrumCall("background_type", value, SetBackgroundTypeOp(attrs, value))

\* spectrum.background_bounds = value
SetBackgroundBounds(value) ==
    SpectrumCall("background_bounds", value,
                 SetBackgroundBoundsOp(attrs, value))

\* spectrum.normalization_type = value
SetNormalizationType(value) ==
    SpectrumCall("normalization_type", value,
                 SetNormalizationTypeOp(attrs, value))

\* spectrum.normalization_divisor = value
SetNormalizationDivisor(value) ==
    SpectrumCall("normalization_divisor", value,
                 SetNormalizationDivisorOp(attrs, value))

InitSpectrum ==
    /\ bus = [id \in {"bus"} |->
                SubscribeOp(NewBus("fire"), "cb1", "changed-spectrum", 5)]
    /\ queues = [obs \in {"sp1"} |-> <<"bus">>]
    /\ calls = <<>>
    /\ received = <<>>
    /\ lastOp = Op("init", "", "", "", FALSE)
    /\ ops = 0
    /\ sinceDispatch = NoHistoryOf({"bus"}, Signals)
    /\ unregistered = [obs \in {"sp1"} |-> {}]
    /\ InitData

NextSpectrum ==
    \/ \E value \in Calibrations :
          ops < MaxSpectrumOps /\ SetEnergyCalibration(value)
    \/ \E value \in BgTypeInputs :
          ops < MaxSpectrumOps /\ SetBackgroundType(value)
    \/ \E value \in BoundsInputs :
          ops < MaxSpectrumOps /\ SetBackgroundBounds(value)
    \/ \E value \in NormTypeInputs :
          ops < MaxSpectrumOps /\ SetNormalizationType(value)
    \/ \E value \in Divisors :
          ops < MaxSpectrumOps /\ SetNormalizationDivisor(value)

SpecSpectrum == InitSpectrum /\ [][NextSpectrum]_vars

\* how many spectra are constructed in a row
MaxConstructions == 2

\* the longest array given to the constructor
MaxSamples == 3

\* the energies the arrays are made of
EnergyInputs == 1..4

\* the arrays of energies given to the constructor: any order, with or
\* without repeated values, evenly spaced or not
EnergyArrays ==
    UNION {[1..n -> EnergyInputs] : n \in 2..MaxSamples}

\* the arrays of intensities given to the constructor
IntensityArrays ==
    {[k \in 1..n |-> RawIntensity[((k - 1) % Len(RawIntensity)) + 1]] :
        n \in 2..MaxSamples}

\* Spectrum(energy=energy, intensity=intensity, name=..., ...)
Construct(energy, intensity) ==
    SpectrumCall("Spectrum", [energy |-> energy, intensity |-> intensity],
                 NewSpectrumOp(energy, intensity))

NextConstruct ==
    \E energy \in EnergyArrays, intensity \in IntensityArrays :
        ops < MaxConstructions /\ Construct(energy, intensity)

SpecConstruct == InitSpectrum /\ [][NextConstruct]_vars

(***************************************************************************)
(* SpecPeaks: one spectrum and its peaks, each registered with the bus of  *)
(* GXPS.do_startup when it is created (as Fit.on_add_peak does); the bus   *)
(* has subscribers for changed-fit and changed-peak.                       *)
(***************************************************************************)
\* operations in one run of SpecPeaks
MaxPeakOps == 4

\* the names given to peaks
PeakNames == {"a", "a_b", "B"}

\* the shapes given to peaks, one of them not in Peak.shapes
ShapeInputs == {"PseudoVoigt", "Gauss"}

\* the area, fwhm and position given to every peak
PeakArea == 3

PeakFwhm == 4

PeakPosition == 2

\* spectrum.add_peak(name, shape=shape, ...)
AddPeak(name, shape) ==
    /\ LET r == AddPeakOp(fit, name, shape, PeakArea, PeakFwhm, PeakPosition)
       IN  /\ fit' = r.after
           /\ Notify("sp1", "add_peak", name, r)
    /\ UNCHANGED <<spectra, attrs>>

\* spectrum.remove_peak(peak), for the i-th peak of the spectrum
RemovePeak(i) ==
    /\ i \in 1..Len(fit.peaks)
    /\ LET r == RemovePeakOp(fit, fit.peaks[i])
       IN  /\ fit' = r.after
           /\ Notify("sp1", "remove_peak", fit.peaks[i].name, r)
    /\ UNCHANGED <<spectra, attrs>>

\* the aliases passed to set_constraints: fwhm, and beta which no shape has
AliasInputs == {"fwhm", "beta"}

\* the values passed to set_constraints
ValueInputs == {NotGiven, Given(Fin(5))}

\* the relations passed to set_constraints
Relations == {"a*3", "b*3", "x*3", "B*3", "a_b*3"}

\* peak.set_constraints(param_alias, value=value, expr=expr), for the i-th
\* peak of the spectrum; expr is a relation or ""
SetConstraints(i, param_alias, value, expr) ==
    /\ i \in 1..Len(fit.peaks)
    /\ LET r == SetConstraintsOp(fit, fit.peaks[i], param_alias, value,
                                 IF expr = "" THEN <<>> ELSE Chars[expr])
       IN  /\ fit' = r.after
           /\ Notify(fit.peaks[i].name, "set_constraints",
                     [alias |-> param_alias, value |-> value, expr |-> expr],
                     r)
    /\ UNCHANGED <<spectra, attrs>>

InitPeaks ==
    /\ bus = [id \in {"bus"} |->
                SubscribeOp(SubscribeOp(NewBus("fire"), "cb1", "changed-fit", 5),
                            "cb1", "changed-peak", 5)]
    /\ queues = [obs \in {"sp1"} \cup PeakNames |-> <<"bus">>]
    /\ calls = <<>>
    /\ received = <<>>
    /\ lastOp = Op("init", "", "", "", FALSE)
    /\ ops = 0
    /\ sinceDispatch = NoHistoryOf({"bus"}, Signals \cup {"changed-peak"})
    /\ unregistered = [obs \in {"sp1"} \cup PeakNames |-> {}]
    /\ InitData

NextPeaks ==
    \/ \E name \in PeakNames, shape \in ShapeInputs :
          ops < MaxPeakOps /\ AddPeak(name, shape)
    \/ \E i \in 1..Cardinality(PeakNames) :
          ops < MaxPeakOps /\ RemovePeak(i)
    \/ \E i \in 1..Cardinality(PeakNames), param_alias \in AliasInputs,
          value \in ValueInputs, expr \in Relations \cup {""} :
          ops < MaxPeakOps /\ SetConstraints(i, param_alias, value, expr)

SpecPeaks == InitPeaks /\ [][NextPeaks]_vars

\* how many calls are explored on the peaks whose shape changes
MaxShapeOps == 4

\* the shapes assigned: the two modelled ones and one that does not exist
NewShapes == {"PseudoVoigt", "DoniachSunjic", "Gauss"}

\* the peaks added where shapes change
ShapePeakNames == {"a", "B"}

\* the aliases constrained where shapes change
ShapeAliases == {"fwhm", "alpha"}

\* peak.shape = value, for the i-th peak of the spectrum
SetShape(i, value) ==
    /\ i \in 1..Len(fit.peaks)
    /\ \E r \in {SetShapeOp(fit, i, value)} :
          /\ fit' = r.after
          /\ Notify(fit.peaks[i].name, "shape", value, r)
    /\ UNCHANGED <<spectra, attrs>>

\* spectrum.do_fit()
DoFit(result) ==
    /\ \E r \in {DoFitOp(fit, result)} :
          /\ fit' = r.after
          /\ Notify("sp1", "do_fit", result, r)
    /\ UNCHANGED <<spectra, attrs>>

NextShape ==
    \/ \E name \in ShapePeakNames :
          ops < MaxShapeOps /\ AddPeak(name, "PseudoVoigt")
    \/ \E i \in 1..Cardinality(ShapePeakNames), param_alias \in ShapeAliases,
          value \in ValueInputs, expr \in {"B*3", "x*3", ""} :
          ops < MaxShapeOps /\ SetConstraints(i, param_alias, value, expr)
    \/ \E i \in 1..Cardinality(ShapePeakNames), value \in NewShapes :
          ops < MaxShapeOps /\ SetShape(i, value)
    \/ \E result \in SolverOutcomes :
          ops < MaxShapeOps /\ DoFit(result)

SpecShape == InitPeaks /\ [][NextShape]_vars

(***************************************************************************)
(* Metadata of a spectrum (MetaDataContainer, src/gxps/utility.py)         *)
(***************************************************************************)
\* operations in one run of SpecMeta
MaxMetaOps == 3

\* self._meta after Spectrum.__init__(energy=..., intensity=..., name="x",
\* filename="", notes=""): the keyword arguments are set silently
NewMeta == [name |-> "x", filename |-> "", notes |-> ""]

\* Spectrum._default_meta_value
DefaultMetaValue == ""

\* get_meta(attr) of a spectrum; the hook _get_meta does nothing
GetMetaOp(meta, attr) ==
    IF attr \notin DOMAIN meta THEN DefaultMetaValue ELSE meta[attr]

\* spectrum.set_meta(attr, value, silent): the hook Spectrum._set_meta emits
\* changed-spectrum-meta, then self._meta[attr] = value
SetMetaOp(meta, attr, value, silent) ==
    Outcome(DictSet(meta, attr, value),
            IF silent THEN <<>>
            ELSE <<Emitted("changed-spectrum-meta",
                           [k \in {"attr", "value"} |->
                               IF k = "attr" THEN Scalar(attr)
                               ELSE Scalar(value)],
                           meta)>>,
            FALSE)

\* attributes and values passed to set_meta
MetaAttrs == {"name", "notes", "comment"}

MetaValues == {"", "x", "y"}

\* sp1.set_meta(attr, value, silent)
SetMeta(attr, value, silent) ==
    /\ \E r \in {SetMetaOp(attrs, attr, value, silent)} :
          /\ attrs' = r.after
          /\ Notify("sp1", "set_meta",
                    [attr |-> attr, value |-> value, silent |-> silent], r)
    /\ UNCHANGED <<spectra, fit>>

InitMeta ==
    /\ \E default_policy \in {"fire", "accumulate"} :
          bus = [id \in {"bus"} |->
                    SubscribeOp(NewBus(default_policy), "cb1",
                                "changed-spectrum-meta", 5)]
    /\ queues = [obs \in {"sp1"} |-> <<"bus">>]
    /\ calls = <<>>
    /\ received = <<>>
    /\ lastOp = Op("init", "", "", "", FALSE)
    /\ ops = 0
    /\ sinceDispatch = [id \in {"bus"} |->
                          [signal \in {"changed-spectrum-meta"} |-> <<>>]]
    /\ unregistered = [obs \in {"sp1"} |-> {}]
    /\ spectra = <<>>
    /\ attrs = NewMeta
    /\ fit = NewFit
    /\ observed = <<>>

NextMeta ==
    \/ \E attr \in MetaAttrs, value \in MetaValues, silent \in BOOLEAN :
          ops < MaxMetaOps /\ SetMeta(attr, value, silent)
    \/ ops < MaxMetaOps /\ Fire("bus", "changed-spectrum-meta")

SpecMeta == InitMeta /\ [][NextMeta]_vars

(***************************************************************************)
(* SpecCopy: the container, its spectra and the peak of sp1, each          *)
(* registered with buses, driven by add_spectrum, remove_spectrum,         *)
(* register_queue, unregister_queue and deepcopy.                          *)
(***************************************************************************)
\* operations in one run of SpecCopy
MaxCopyOps == 3

\* the observables of the project: the container, two spectra, a peak
Tree == {"data", "sp1", "sp2", "a"}

\* obs.children for every observable: the spectra of the container in list
\* order, the peaks of a spectrum (those of sp1 are modelled), none of a peak
Children(list, f) ==
    [obs \in Tree |->
        IF obs = "data" THEN list
        ELSE IF obs = "sp1" THEN [i \in 1..Len(f.peaks) |-> f.peaks[i].name]
        ELSE <<>>]

\* children_queues[child] = queues: a new key goes last, an old one keeps
\* its place
SaveQueues(saved, child, qs) ==
    IF \E i \in 1..Len(saved) : saved[i].child = child
    THEN [i \in 1..Len(saved) |->
            IF saved[i].child = child THEN [child |-> child, queues |-> qs]
            ELSE saved[i]]
    ELSE Append(saved, [child |-> child, queues |-> qs])

\* unregister_children(obs) of Observable.deepcopy from the i-th child on
RECURSIVE UnregisterChildren(_, _, _, _)
UnregisterChildren(st, kids, obs, i) ==
    IF i > Len(kids[obs]) THEN st
    ELSE LET child == kids[obs][i]
         IN  UnregisterChildren(
                UnregisterChildren(
                    [queues |-> [st.queues EXCEPT ![child] = <<>>],
                     saved |-> SaveQueues(st.saved, child, st.queues[child])],
                    kids, child, 1),
                kids, obs, i + 1)

\* the loop over children_queues.items() of Observable.deepcopy
RECURSIVE RegisterChildren(_, _, _)
RegisterChildren(qs, saved, i) ==
    IF i > Len(saved) THEN qs
    ELSE RegisterChildren([qs EXCEPT ![saved[i].child] = @ \o saved[i].queues],
                          saved, i + 1)

\* obs and what is below it
RECURSIVE Descendants(_, _)
Descendants(kids, obs) ==
    {obs} \cup UNION {Descendants(kids, kids[obs][i]) : i \in 1..Len(kids[obs])}

\* obs.deepcopy(): the registrations of the originals after it and those of
\* the objects of the copy, which copy.deepcopy takes as they are then
DeepCopyOp(qs, kids, obs) ==
    LET st == UnregisterChildren([queues |-> qs, saved |-> <<>>], kids, obs, 1)
        cleared == [st.queues EXCEPT ![obs] = <<>>]
    IN  [queues |-> RegisterChildren([cleared EXCEPT ![obs] = @ \o qs[obs]],
                                     st.saved, 1),
         copy |-> [o \in Descendants(kids, obs) |-> cleared[o]]]

\* obs.deepcopy(); lastOp.arg is the registrations of the returned copy
DeepCopy(obs) ==
    /\ \E r \in {DeepCopyOp(queues, Children(spectra, fit), obs)} :
          /\ queues' = r.queues
          /\ lastOp' = Op("deepcopy", obs, "", r.copy, FALSE)
    /\ calls' = <<>>
    /\ received' = <<>>
    /\ ops' = ops + 1
    /\ UNCHANGED data
    /\ UNCHANGED <<bus, sinceDispatch, unregistered>>

InitCopy ==
    /\ bus = [id \in BusIds |->
                SubscribeOp(NewBus("accumulate"), "cb1", "changed-spectra", 5)]
    /\ queues = [obs \in Tree |-> <<"bus1">>]
    /\ calls = <<>>
    /\ received = <<>>
    /\ lastOp = Op("init", "", "", "", FALSE)
    /\ ops = 0
    /\ sinceDispatch = [id \in BusIds |->
                          [signal \in ContainerSignals |-> <<>>]]
    /\ unregistered = [obs \in Tree |-> {}]
    /\ spectra = <<>>
    /\ attrs = NewSpectrum
    /\ fit = AddPeakOp(NewFit, "a", "PseudoVoigt", PeakArea, PeakFwhm,
                       PeakPosition).after
    /\ observed = <<>>

NextCopy ==
    \/ \E spectrum \in Observables :
          ops < MaxCopyOps /\ AddSpectrum(spectrum)
    \/ \E spectrum \in Observables :
          ops < MaxCopyOps /\ RemoveSpectrum(spectrum)
    \/ \E obs \in Tree, id \in BusIds :
          ops < MaxCopyOps /\ RegisterQueue(obs, id)
    \/ \E obs \in Tree, id \in BusIds :
          ops < MaxCopyOps /\ UnregisterQueue(obs, id)
    \/ \E obs \in Tree : ops < MaxCopyOps /\ DeepCopy(obs)

SpecCopy == InitCopy /\ [][NextCopy]_vars

(***************************************************************************)
(* SpecBounds: the spectrum of SpecSpectrum, driven by                     *)
(* add_background_bounds, remove_background_bounds and the setters of      *)
(* background_type and energy_calibration.                                 *)
(***************************************************************************)
\* operations in one run of SpecBounds
MaxBoundsOps == 3

\* np.setdiff1d(ar1, ar2): the sorted unique values of ar1 that are not in
\* ar2
SetDiff1d(ar1, ar2) ==
    LET kept == {ar1[i] : i \in 1..Len(ar1)} \ {ar2[i] : i \in 1..Len(ar2)}
    IN  [i \in 1..Cardinality(kept) |->
            CHOOSE v \in kept : Cardinality({w \in kept : w < v}) = i - 1]

\* spectrum.add_background_bounds(emin, emax)
AddBackgroundBoundsOp(a, emin, emax) ==
    SetBackgroundBoundsOp(a,
        BackgroundBounds(a) \o (IF emin > emax THEN <<emax, emin>>
                                ELSE <<emin, emax>>))

\* spectrum.remove_background_bounds(emin, emax)
RemoveBackgroundBoundsOp(a, emin, emax) ==
    SetBackgroundBoundsOp(a,
        SetDiff1d(BackgroundBounds(a), IF emin > emax THEN <<emax, emin>>
                                       ELSE <<emin, emax>>))

\* bounds passed to add_background_bounds and remove_background_bounds
BoundInputs == 1..4

AddBackgroundBounds(emin, emax) ==
    SpectrumCall("add_background_bounds", <<emin, emax>>,
                 AddBackgroundBoundsOp(attrs, emin, emax))

RemoveBackgroundBounds(emin, emax) ==
    SpectrumCall("remove_background_bounds", <<emin, emax>>,
                 RemoveBackgroundBoundsOp(attrs, emin, emax))

NextBounds ==
    \/ \E emin, emax \in BoundInputs :
          ops < MaxBoundsOps /\ AddBackgroundBounds(emin, emax)
    \/ \E emin, emax \in BoundInputs :
          ops < MaxBoundsOps /\ RemoveBackgroundBounds(emin, emax)
    \/ \E value \in {"none", "linear"} :
          ops < MaxBoundsOps /\ SetBackgroundType(value)
    \/ \E value \in {Fin(0), Fin(1)} :
          ops < MaxBoundsOps /\ SetEnergyCalibration(value)

SpecBounds == InitSpectrum /\ [][NextBounds]_vars

(***************************************************************************)
(* SpecRemove: two spectra, each with its own parameter pool and peaks     *)
(* (fit is the pair of them), driven by add_peak and by remove_peak with a *)
(* peak of either spectrum.                                                *)
(***************************************************************************)
\* operations in one run of SpecRemove
MaxRemoveOps == 4

\* the names given to the peaks of the two spectra
RemovePeakNames == {"a", "B"}

\* sp.remove_peak(peak) for a peak made by the spectrum owner:
\* peak.clear_params() works on peak.params, the pool of the owner, and
\* self._peaks.remove(peak) raises ValueError for a peak that is not in the
\* list of sp
RemovePeakOfOp(fs, sp, owner, peak) ==
    IF owner # sp \/ ~InList(fs[sp].peaks, peak)
    THEN Outcome([fs EXCEPT ![owner].params = ClearParams(@, peak)], <<>>, TRUE)
    ELSE LET r == RemovePeakOp(fs[sp], peak)
         IN  Outcome([fs EXCEPT ![sp] = r.after], r.emits, FALSE)

\* sp.add_peak(name, shape="PseudoVoigt", ...)
AddPeakTo(sp, name) ==
    /\ \E r \in {AddPeakOp(fit[sp], name, "PseudoVoigt", PeakArea, PeakFwhm,
                           PeakPosition)} :
          /\ fit' = [fit EXCEPT ![sp] = r.after]
          /\ Notify(sp, "add_peak", name, r)
    /\ UNCHANGED <<spectra, attrs>>

\* sp.remove_peak(peak) with the i-th peak of the spectrum owner
RemovePeakOf(sp, owner, i) ==
    /\ i \in 1..Len(fit[owner].peaks)
    /\ \E r \in {RemovePeakOfOp(fit, sp, owner, fit[owner].peaks[i])} :
          /\ fit' = r.after
          /\ Notify(sp, "remove_peak",
                    [owner |-> owner, name |-> fit[owner].peaks[i].name], r)
    /\ UNCHANGED <<spectra, attrs>>

InitRemove ==
    /\ bus = [id \in {"bus"} |->
                SubscribeOp(NewBus("fire"), "cb1", "changed-fit", 5)]
    /\ queues = [obs \in Observables |-> <<"bus">>]
    /\ calls = <<>>
    /\ received = <<>>
    /\ lastOp = Op("init", "", "", "", FALSE)
    /\ ops = 0
    /\ sinceDispatch = [id \in {"bus"} |-> [signal \in Signals |-> <<>>]]
    /\ unregistered = [obs \in Observables |-> {}]
    /\ spectra = <<"sp1", "sp2">>
    /\ attrs = NewSpectrum
    /\ fit = [sp \in Observables |-> NewFit]
    /\ observed = <<>>

NextRemove ==
    \/ \E sp \in Observables, name \in RemovePeakNames :
          ops < MaxRemoveOps /\ AddPeakTo(sp, name)
    \/ \E sp, owner \in Observables, i \in 1..Cardinality(RemovePeakNames) :
          ops < MaxRemoveOps /\ RemovePeakOf(sp, owner, i)

SpecRemove == InitRemove /\ [][NextRemove]_vars

(***************************************************************************)
(* SpecBackground: a spectrum of two to four equidistant samples with any  *)
(* of the intensities below, driven by the setters of background_type and  *)
(* background_bounds.                                                      *)
(***************************************************************************)
\* operations in one run of SpecBackground
MaxBackgroundOps == 2

\* the most samples a spectrum has
MaxPoints == 4

\* the values the intensities are made of
IntensityInputs == {0, 1, 2, 4}

\* Spectrum(energy=[1, ..., n], intensity=intensity, ...): the arrays are
\* increasing and equidistant and are kept as they are
SampledSpectrum(intensity) ==
    [NewSpectrum EXCEPT
        !.energy = [k \in 1..Len(intensity) |-> k],
        !.intensity = intensity,
        !.background = [k \in 1..Len(intensity) |-> Fin(0)]]

InitSamples ==
    /\ bus = [id \in {"bus"} |->
                SubscribeOp(NewBus("fire"), "cb1", "changed-spectrum", 5)]
    /\ queues = [obs \in {"sp1"} |-> <<"bus">>]
    /\ calls = <<>>
    /\ received = <<>>
    /\ lastOp = Op("init", "", "", "", FALSE)
    /\ ops = 0
    /\ sinceDispatch = [id \in {"bus"} |-> [signal \in Signals |-> <<>>]]
    /\ unregistered = [obs \in {"sp1"} |-> {}]
    /\ spectra = <<>>
    /\ \E n \in 2..MaxPoints : \E intensity \in [1..n -> IntensityInputs] :
          attrs = SampledSpectrum(intensity)
    /\ fit = NewFit
    /\ observed = <<>>

NextBackground ==
    \/ \E value \in {"none", "linear"} :
          ops < MaxBackgroundOps /\ SetBackgroundType(value)
    \/ \E value \in {<<>>, <<1, 2>>, <<1, 3>>, <<1, 4>>} :
          ops < MaxBackgroundOps /\ SetBackgroundBounds(value)

SpecBackground == InitSamples /\ [][NextBackground]_vars

(***************************************************************************)
(* SpecState: the State object of the application with the bus of          *)
(* GXPS.do_startup (default policy fire), on which State.__init__ has      *)
(* subscribed update_active and alter_project; a view is subscribed to     *)
(* changed-active and a subscriber that mirrors project_isaltered to       *)
(* changed-project.  The container, the spectra and State are registered   *)
(* with the bus.  attrs holds the attributes of State and the mirror, fit  *)
(* the parameter pool and the peaks of each spectrum.  A peak is known by  *)
(* the spectrum that made it and its name; a name is given again only to   *)
(* a peak that is no longer active.                                        *)
(***************************************************************************)
\* operations in one run of SpecState
MaxStateOps == 4

\* State.__init__: the attributes modelled, and what the mirror holds
NewState ==
    [active_spectra |-> <<>>, active_peaks |-> <<>>,
     project_isaltered |-> FALSE, current_project |-> "", mirror |-> FALSE]

\* the container and the peaks of every spectrum, as State sees them
WorldOf(list, fs) ==
    [spectra |-> list,
     peaks |-> [s \in Observables |->
                  [i \in 1..Len(fs[s].peaks) |->
                      [owner |-> s, name |-> fs[s].peaks[i].name]]]]

\* an operation begins
Begin(list, fs) ==
    [bus |-> bus["bus"], calls |-> <<>>, emitted |-> <<>>,
     unaltered |-> ~attrs.project_isaltered, raised |-> FALSE,
     state |-> attrs, world |-> WorldOf(list, fs)]

\* the emits of one method of the observable obs, passed in order through
\* Observable.emit, the subscribers run
RECURSIVE EmitsR(_, _, _, _)
EmitsR(st, obs, emits, i) ==
    IF i > Len(emits) THEN st
    ELSE LET event == Event(emits[i].signal, <<obs>>, emits[i].kwargs)
         IN  EmitsR(EnqueueR([st EXCEPT !.emitted = Append(@, event)], event),
                    obs, emits, i + 1)

\* an operation ends with the outcome st
StateOp(name, target, arg, st, raised) ==
    /\ bus' = [bus EXCEPT !["bus"] = st.bus]
    /\ calls' = st.calls
    /\ observed' = st.emitted
    /\ received' = <<>>
    /\ attrs' = [st.state EXCEPT !.project_isaltered = ~st.unaltered]
    /\ lastOp' = Op(name, target, "", arg, raised \/ st.raised)
    /\ ops' = ops + 1
    /\ UNCHANGED <<queues, sinceDispatch, unregistered>>

\* data.add_spectrum(spectrum), data.remove_spectrum(spectrum), data.clear()
ContainerOp(name, arg, r) ==
    /\ spectra' = r.after
    /\ fit' = fit
    /\ \E st \in {EmitsR(Begin(r.after, fit), "data", r.emits, 1)} :
          StateOp(name, "data", arg, st, r.raised)

\* sp.add_peak(name, ...), sp.remove_peak(peak)
PeakOp(name, sp, arg, r) ==
    /\ spectra' = spectra
    /\ fit' = [fit EXCEPT ![sp] = r.after]
    /\ \E st \in {EmitsR(Begin(spectra, [fit EXCEPT ![sp] = r.after]), sp,
                         r.emits, 1)} :
          StateOp(name, sp, arg, st, r.raised)

\* state.active_spectra = value
SetActiveSpectra(value) ==
    /\ UNCHANGED <<spectra, fit>>
    /\ \E st \in {SetActiveSpectraR(Begin(spectra, fit), value)} :
          StateOp("active_spectra", "state", value, st, FALSE)

\* state.active_peaks = value
SetActivePeaks(value) ==
    /\ UNCHANGED <<spectra, fit>>
    /\ \E st \in {SetActivePeaksR(Begin(spectra, fit), value)} :
          StateOp("active_peaks", "state", value, st, FALSE)

\* bus.fire()
FireState ==
    /\ UNCHANGED <<spectra, fit>>
    /\ \E st \in {FireR(Begin(spectra, fit), "all")} :
          StateOp("fire", "bus", "all", st, FALSE)

\* the names given to peaks
StatePeakNames == {"a"}

\* the peaks there can be
PeakIds == [owner : Observables, name : StatePeakNames]

\* the lists assigned to active_spectra and to active_peaks
ActiveSpectraInputs ==
    {<<>>} \cup {<<s>> : s \in Observables}
           \cup {<<s, t>> : s \in Observables, t \in Observables}

ActivePeaksInputs ==
    {<<>>} \cup {<<p>> : p \in PeakIds} \cup {<<p, q>> : p \in PeakIds, q \in PeakIds}

\* the signals State subscribes its callbacks and the views theirs to
ActiveSignals ==
    {"changed-spectra", "changed-fit", "changed-active", "changed-project"}

InitState ==
    /\ \E overall \in {None, "accumulate"} :
          bus = [id \in {"bus"} |->
                   [SubscribeOp(SubscribeOp(SubscribeOp(SubscribeOp(
                    SubscribeOp(SubscribeOp(NewBus("fire"),
                        "update_active", "changed-spectra", 9),
                        "update_active", "changed-fit", 0),
                        "alter_project", "changed-spectra", 10),
                        "alter_project", "changed-fit", 10),
                        "cb1", "changed-active", 5),
                        "mirror", "changed-project", 5)
                    EXCEPT !.policy["all"] = overall]]
    /\ queues = [obs \in Observables \cup {"data", "state"} |-> <<"bus">>]
    /\ calls = <<>>
    /\ received = <<>>
    /\ lastOp = Op("init", "", "", "", FALSE)
    /\ ops = 0
    /\ sinceDispatch = [id \in {"bus"} |-> [signal \in ActiveSignals |-> <<>>]]
    /\ unregistered = [obs \in Observables \cup {"data", "state"} |-> {}]
    /\ spectra = <<>>
    /\ attrs = NewState
    /\ fit = [sp \in Observables |-> NewFit]
    /\ observed = <<>>

NextState ==
    \/ \E spectrum \in Observables :
          /\ ops < MaxStateOps
          /\ ContainerOp("add_spectrum", spectrum,
                         AddSpectrumOp(spectra, spectrum))
    \/ \E spectrum \in Observables :
          /\ ops < MaxStateOps
          /\ ContainerOp("remove_spectrum", spectrum,
                         RemoveSpectrumOp(spectra, spectrum))
    \/ ops < MaxStateOps /\ ContainerOp("clear", "", ClearOp(spectra))
    \/ \E sp \in Observables, name \in StatePeakNames :
          /\ ops < MaxStateOps
          /\ ~InList(attrs.active_peaks, [owner |-> sp, name |-> name])
          /\ PeakOp("add_peak", sp, name,
                    AddPeakOp(fit[sp], name, "PseudoVoigt", PeakArea, PeakFwhm,
                              PeakPosition))
    \/ \E sp \in Observables, i \in 1..Cardinality(StatePeakNames) :
          /\ ops < MaxStateOps
          /\ i <= Len(fit[sp].peaks)
          /\ PeakOp("remove_peak", sp, fit[sp].peaks[i].name,
                    RemovePeakOp(fit[sp], fit[sp].peaks[i]))
    \/ \E value \in ActiveSpectraInputs :
          ops < MaxStateOps /\ SetActiveSpectra(value)
    \/ \E value \in ActivePeaksInputs :
          ops < MaxStateOps /\ SetActivePeaks(value)
    \/ ops < MaxStateOps /\ FireState

SpecState == InitState /\ [][NextState]_vars

(***************************************************************************)
(* SpecProject: State as in SpecState, with the project file name and      *)
(* project_isaltered assigned.  File.save writes the file and assigns      *)
(* current_project; io.save_project emits nothing.                         *)
(***************************************************************************)
\* operations in one run of SpecProject
MaxProjectOps == 4

\* self.emit("changed-project", attr=attr) of State
EmitProject(st, attr) ==
    LET event == Event("changed-project", <<"state">>,
                       [k \in {"attr"} |-> Scalar(attr)])
    IN  EnqueueR([st EXCEPT !.emitted = Append(@, event)], event)

\* state.project_isaltered = isaltered
SetProjectIsAlteredR(st, isaltered) ==
    IF isaltered # ~st.unaltered
    THEN EmitProject([st EXCEPT !.unaltered = ~isaltered], "isaltered")
    ELSE st

\* state.current_project = value
SetCurrentProjectR(st, value) ==
    LET st1 == [st EXCEPT !.unaltered = TRUE]
    IN  IF value = "Untitled" \/ value = ""
        THEN EmitProject([st1 EXCEPT !.state.current_project = "Untitled"],
                         "filename")
        ELSE IF value # st.state.current_project
        THEN EmitProject([st1 EXCEPT !.state.current_project = value],
                         "filename")
        ELSE st1

\* state.project_isaltered = isaltered
SetProjectIsAltered(isaltered) ==
    /\ UNCHANGED <<spectra, fit>>
    /\ \E st \in {SetProjectIsAlteredR(Begin(spectra, fit), isaltered)} :
          StateOp("project_isaltered", "state", isaltered, st, FALSE)

\* state.current_project = value, as File.save(value) and File.on_new do
AssignCurrentProject(value) ==
    /\ UNCHANGED <<spectra, fit>>
    /\ \E st \in {SetCurrentProjectR(Begin(spectra, fit), value)} :
          StateOp("current_project", "state", value, st, FALSE)

\* the file names assigned
ProjectNames == {"", "f", "g"}

NextProject ==
    \/ \E spectrum \in Observables :
          /\ ops < MaxProjectOps
          /\ ContainerOp("add_spectrum", spectrum,
                         AddSpectrumOp(spectra, spectrum))
    \/ \E spectrum \in Observables :
          /\ ops < MaxProjectOps
          /\ ContainerOp("remove_spectrum", spectrum,
                         RemoveSpectrumOp(spectra, spectrum))
    \/ \E isaltered \in BOOLEAN :
          ops < MaxProjectOps /\ SetProjectIsAltered(isaltered)
    \/ \E value \in ProjectNames :
          ops < MaxProjectOps /\ AssignCurrentProject(value)
    \/ ops < MaxProjectOps /\ FireState

SpecProject == InitState /\ [][NextProject]_vars

(***************************************************************************)
(* SpecNorm: the normalization properties of a spectrum of sampled data    *)
(* (InitSamples: two to MaxPoints samples, every intensity array over      *)
(* IntensityInputs, the all-zero ones included).  _normalization_energy,   *)
(* None at first, is held by the variable spectra as a list of at most one *)
(* energy.                                                                 *)
(***************************************************************************)
\* operations in one run of SpecNorm
MaxNormOps == 2

\* intensity_at_energy: intensity[idx] raises IndexError when every energy
\* is below energy_value
IntensityAtEnergy(energy, intensity, energy_value) ==
    LET idx == SearchSorted(energy, energy_value)
    IN  IF idx >= Len(intensity) THEN [value |-> Fin(0), raised |-> TRUE]
        ELSE [value |-> Fin(intensity[idx + 1]), raised |-> FALSE]

\* spectrum.normalization_energy = value: the divisor setter is called with
\* the intensity found, then the energy is stored
SetNormalizationEnergyOp(a, value) ==
    LET at == IntensityAtEnergy(Energy(a), a.intensity, value)
    IN  IF at.raised THEN Outcome(a, <<>>, TRUE)
        ELSE SetNormalizationDivisorOp(a, at.value)

\* spectrum.normalization_energy = value
SetNormalizationEnergy(value) ==
    \E r \in {SetNormalizationEnergyOp(attrs, value)} :
       /\ attrs' = r.after
       /\ Notify("sp1", "normalization_energy", value, r)
       /\ spectra' = IF r.raised THEN spectra ELSE <<value>>
       /\ fit' = fit

\* the energies assigned to normalization_energy
NormEnergyInputs == 0..(MaxPoints + 1)

NextNorm ==
    \/ \E value \in NormTypes :
          ops < MaxNormOps /\ SetNormalizationType(value)
    \/ \E value \in {Fin(2), Fin(0)} :
          ops < MaxNormOps /\ SetNormalizationDivisor(value)
    \/ \E value \in NormEnergyInputs :
          ops < MaxNormOps /\ SetNormalizationEnergy(value)

SpecNorm == InitSamples /\ [][NextNorm]_vars

(***************************************************************************)
(* Properties                                                              *)
(***************************************************************************)
\* the policy in force for a signal: the one set for all signals if any,
\* else the one set for the signal if any, else the default
PolicyInForce(b, signal) ==
    IF b.policy["all"] \in Policies THEN b.policy["all"]
    ELSE IF signal \in DOMAIN b.policy THEN b.policy[signal]
    ELSE b.policy["default"]

HasSubscribers(b, signal) ==
    signal \in DOMAIN b.subscribers /\ b.subscribers[signal] # <<>>

\* the invocations among `made` that carry an event of `signal`
CallsOf(made, signal) ==
    SelectSeq(made, LAMBDA c : c.event.signal = signal)

\* number of elements of a sequence that satisfy Test
Count(seq, Test(_)) == Len(SelectSeq(seq, Test))

\* the event the emit recorded in `op` built
EmittedEvent(op) == Event(op.signal, <<op.target>>, Kwargs(op.arg))

EmitDone(op) == op.op = "emit" /\ ~op.raised

(* C1: under policy accumulate an emit whose event carries no noqueue
   property calls no subscriber, and the subscribers of a signal under
   accumulate are called only by fire(signal) or fire("all") (or by an event
   that carries noqueue). *)
C1_AccumulateDefersDispatch ==
    /\ ( /\ EmitDone(lastOp)
         /\ lastOp.arg # "noqueue"
         /\ PolicyInForce(bus["bus"], lastOp.signal) = "accumulate" )
       => calls = <<>>
    /\ \A i \in 1..Len(calls) :
          PolicyInForce(bus["bus"], calls[i].event.signal) = "accumulate"
          => \/ /\ lastOp.op = "fire"
                /\ lastOp.signal \in {calls[i].event.signal, "all"}
             \/ /\ lastOp.op = "emit"
                /\ lastOp.arg = "noqueue"
                /\ lastOp.signal = calls[i].event.signal

\* two events are pending under accumulate for a signal that has a
\* subscriber, and the emit of the second called nobody
C1_Witness ==
    /\ EmitDone(lastOp)
    /\ lastOp.arg # "noqueue"
    /\ PolicyInForce(bus["bus"], lastOp.signal) = "accumulate"
    /\ HasSubscribers(bus["bus"], lastOp.signal)
    /\ Len(Pending(bus["bus"], lastOp.signal)) >= 2
    /\ calls = <<>>

(* C2: under policy fire an emit for a signal that has subscribers calls
   every subscription of that signal exactly once, and nothing else. *)
C2_FireDispatchesOnce ==
    ( /\ EmitDone(lastOp)
      /\ PolicyInForce(bus["bus"], lastOp.signal) = "fire"
      /\ HasSubscribers(bus["bus"], lastOp.signal) )
    => LET subs == bus["bus"].subscribers[lastOp.signal]
       IN  /\ Len(calls) = Len(subs)
           /\ \A i \in 1..Len(calls) : calls[i].event.signal = lastOp.signal
           /\ \A callback \in Callbacks, priority \in Priorities :
                 Count(calls, LAMBDA c : c.callback = callback
                                          /\ c.priority = priority)
                 = Count(subs, LAMBDA x : x.callback = callback
                                          /\ x.priority = priority)

\* an emit under fire reached two subscriptions
C2_Witness ==
    /\ EmitDone(lastOp)
    /\ lastOp.arg # "noqueue"
    /\ PolicyInForce(bus["bus"], lastOp.signal) = "fire"
    /\ Len(calls) = 2

(* C3: an event that carries a noqueue property is dispatched to the
   subscribers of its signal before emit returns, whatever the policy. *)
C3_NoqueueAlwaysDispatches ==
    ( /\ EmitDone(lastOp)
      /\ lastOp.arg = "noqueue"
      /\ HasSubscribers(bus["bus"], lastOp.signal) )
    => /\ calls # <<>>
       /\ Len(calls) = Len(bus["bus"].subscribers[lastOp.signal])

(* C4: under policy ignore (as default, for the signal, or set for all
   signals) an emit leaves the queue of the bus unchanged and calls no
   subscriber; stated for events that carry no noqueue property. *)
C4_IgnoreDropsEvents ==
    [][ ( /\ EmitDone(lastOp')
          /\ lastOp'.arg # "noqueue"
          /\ PolicyInForce(bus["bus"], lastOp'.signal) = "ignore" )
        => /\ bus'["bus"].queue = bus["bus"].queue
           /\ calls' = <<>> ]_vars

\* the subscriptions in ascending priority, equal priorities in
\* subscription order
RECURSIVE ByPriority(_, _)
ByPriority(subs, priorities) ==
    IF priorities = {} THEN <<>>
    ELSE LET least == CHOOSE p \in priorities : \A q \in priorities : p <= q
         IN  SelectSeq(subs, LAMBDA x : x.priority = least)
             \o ByPriority(subs, priorities \ {least})

(* C5: in every dispatch of a signal its subscribers are called in ascending
   priority, subscribers of equal priority in subscription order. *)
C5_PriorityOrder ==
    \A signal \in Signals :
        LET made == CallsOf(calls, signal)
        IN  made # <<>>
            => LET expected == ByPriority(bus["bus"].subscribers[signal],
                                          Priorities)
               IN  /\ Len(made) = Len(expected)
                   /\ \A i \in 1..Len(made) :
                         /\ made[i].callback = expected[i].callback
                         /\ made[i].priority = expected[i].priority

\* a dispatch called the later subscription first, because of its priority
C5_Witness ==
    \E signal \in Signals :
        /\ HasSubscribers(bus["bus"], signal)
        /\ Len(bus["bus"].subscribers[signal]) = 2
        /\ bus["bus"].subscribers[signal][1].priority
              > bus["bus"].subscribers[signal][2].priority
        /\ bus["bus"].subscribers[signal][1].callback
              # bus["bus"].subscribers[signal][2].callback
        /\ Len(calls) = 2
        /\ calls[1].callback = bus["bus"].subscribers[signal][2].callback
        /\ calls[1].event.signal = signal

(* C6: after fire(signal) returns, and after an emit under policy fire
   returns, no event is pending for that signal, also when the signal has no
   subscriber. *)
C6_DispatchEmptiesQueue ==
    /\ (lastOp.op = "fire" /\ lastOp.signal # "all")
       => Pending(bus["bus"], lastOp.signal) = <<>>
    /\ (EmitDone(lastOp) /\ PolicyInForce(bus["bus"], lastOp.signal) = "fire")
       => Pending(bus["bus"], lastOp.signal) = <<>>

\* the values the events of a batch give for one property, in emission order
RECURSIVE MergedValues(_, _)
MergedValues(batch, prop) ==
    IF batch = <<>> THEN <<>>
    ELSE LET event == Head(batch)
             own == IF prop \notin DOMAIN event.properties THEN <<>>
                    ELSE IF event.properties[prop].islist
                         THEN event.properties[prop].items
                         ELSE <<event.properties[prop].item>>
         IN  own \o MergedValues(Tail(batch), prop)

RECURSIVE MergedSource(_)
MergedSource(batch) ==
    IF batch = <<>> THEN <<>>
    ELSE Head(batch).source \o MergedSource(Tail(batch))

MergedKeys(batch) ==
    UNION {DOMAIN batch[i].properties : i \in 1..Len(batch)}

(* C7: the EventList handed to the subscribers merges exactly the events
   queued for the signal since its last dispatch: every property holds the
   constituents' values in emission order (a list concatenated, any other
   value appended) and source is the constituents' sources in emission
   order. *)
C7_EventListMerges ==
    [][ \A i \in 1..Len(calls') :
          LET event_list == calls'[i].event
              signal == event_list.signal
              batch == sinceDispatch["bus"][signal]
                       \o (IF EmitDone(lastOp') /\ lastOp'.signal = signal
                           THEN <<EmittedEvent(lastOp')>> ELSE <<>>)
          IN  /\ event_list.source = MergedSource(batch)
              /\ DOMAIN event_list.properties = MergedKeys(batch)
              /\ \A prop \in MergedKeys(batch) :
                    event_list.properties[prop] = MergedValues(batch, prop)
      ]_vars

\* a subscriber received the merge of a scalar-valued and a list-valued
\* event of two different sources
C7_Witness ==
    /\ calls # <<>>
    /\ Len(calls[1].event.source) = 2
    /\ calls[1].event.source[1] # calls[1].event.source[2]
    /\ "attr" \in DOMAIN calls[1].event.properties
    /\ calls[1].event.properties["attr"] = <<"b", "c", "a">>

(* C8: emit of a signal that is not declared for the object's type raises,
   and no registered bus receives an event or changes. *)
C8_UndeclaredSignalRejected ==
    [][ (lastOp'.op = "emit" /\ lastOp'.signal \notin Signals \cup DefaultSignals)
        => /\ lastOp'.raised
           /\ received' = <<>>
           /\ calls' = <<>>
           /\ bus' = bus ]_vars

\* an emit of the undeclared signal was rejected while a bus with a
\* subscriber was registered
C8_Witness ==
    /\ lastOp.op = "emit"
    /\ lastOp.signal = UndeclaredSignal
    /\ lastOp.raised
    /\ \E i \in 1..Len(queues[lastOp.target]) :
          bus[queues[lastOp.target][i]].subscribers # <<>>

\* the list without the first occurrence of x
WithoutFirst(list, x) ==
    LET first == CHOOSE i \in 1..Len(list) :
                    list[i] = x /\ \A j \in 1..(i - 1) : list[j] # x
    IN  SubSeq(list, 1, first - 1) \o SubSeq(list, first + 1, Len(list))

\* n copies of x
Copies(n, x) == [i \in 1..n |-> x]

(* C9 as claimed: emit of a declared signal forwards one event to every
   registered bus in registration order (twice to a bus registered twice),
   and a bus removed with unregister_queue receives nothing from later
   emits. *)
C9_RemovedBusReceivesNothing ==
    [][ EmitDone(lastOp')
        => /\ received' = queues[lastOp'.target]
           /\ \A id \in unregistered[lastOp'.target] : ~InList(received', id)
      ]_vars

(* C9 as amended: emit of a declared signal forwards one event with
   source=[self] to every registered bus in registration order, once per
   registration; unregister_queue removes the earliest registration of the
   bus only, and a bus with no registration left receives nothing. *)
C9_EmitForwardsPerRegistration ==
    [][ /\ EmitDone(lastOp')
           => LET obs == lastOp'.target
                  signal == lastOp'.signal
              IN  /\ received' = queues[obs]
                  /\ \A id \in BusIds :
                        /\ ~InList(queues[obs], id) => bus'[id] = bus[id]
                        /\ ( /\ PolicyInForce(bus[id], signal) = "accumulate"
                             /\ lastOp'.arg # "noqueue" )
                           => Pending(bus'[id], signal)
                              = Pending(bus[id], signal)
                                \o Copies(Count(queues[obs], LAMBDA q : q = id),
                                          EmittedEvent(lastOp'))
        /\ (lastOp'.op = "unregister_queue" /\ ~lastOp'.raised)
           => queues'[lastOp'.target]
              = WithoutFirst(queues[lastOp'.target], lastOp'.arg)
        /\ (lastOp'.op = "unregister_queue" /\ lastOp'.raised)
           => /\ ~InList(queues[lastOp'.target], lastOp'.arg)
              /\ queues' = queues
      ]_vars

\* a bus registered twice and unregistered once received the event once
C9_Witness ==
    /\ EmitDone(lastOp)
    /\ \E id \in unregistered[lastOp.target] :
          /\ received = <<id>>
          /\ Len(Pending(bus[id], lastOp.signal)) = 1

(* C10: set_policy calls no subscriber and leaves every pending queue and
   the subscriber lists unchanged. *)
C10_SetPolicyNotRetroactive ==
    [][ lastOp'.op = "set_policy"
        => /\ calls' = <<>>
           /\ bus'["bus"].queue = bus["bus"].queue
           /\ bus'["bus"].subscribers = bus["bus"].subscribers ]_vars

\* the policy was set to fire while an event was pending for a signal that
\* has a subscriber, and the event is still pending
C10_Witness ==
    /\ lastOp.op = "set_policy"
    /\ ~lastOp.raised
    /\ lastOp.arg = "fire"
    /\ \E signal \in Signals :
          /\ PolicyInForce(bus["bus"], signal) = "fire"
          /\ HasSubscribers(bus["bus"], signal)
          /\ Pending(bus["bus"], signal) # <<>>
          /\ calls = <<>>

\* C11: after any sequence of add_spectrum, remove_spectrum and clear the
\* container holds each spectrum at most once.
C11_SpectraHeldOnce ==
    \A i, j \in 1..Len(spectra) : i # j => spectra[i] # spectra[j]

\* the subscriber invocations of the last operation, by signal
SignalsCalled == [i \in 1..Len(calls) |-> calls[i].event.signal]

\* C12: a successful add_spectrum, remove_spectrum or clear emits exactly one
\* changed-spectra event, after the container is mutated; remove_spectrum of
\* a spectrum that is not in the container raises, emits nothing and leaves
\* the container unchanged.
C12_OneEventAfterMutation ==
    [][lastOp'.op \in {"add_spectrum", "remove_spectrum", "clear"} =>
        /\ lastOp'.raised <=>
              (lastOp'.op = "remove_spectrum" /\ ~InList(spectra, lastOp'.arg))
        /\ IF lastOp'.raised
           THEN /\ spectra' = spectra
                /\ received' = <<>>
                /\ observed' = <<>>
                /\ calls' = <<>>
                /\ bus' = bus
           ELSE /\ spectra' # spectra \/ (lastOp'.op = "clear" /\ spectra = <<>>)
                /\ received' = <<"bus">>
                /\ observed' = <<spectra'>>
                /\ PolicyInForce(bus["bus"], "changed-spectra") = "fire"
                      => SignalsCalled' = <<"changed-spectra">>
                /\ PolicyInForce(bus["bus"], "changed-spectra") = "accumulate"
                      => Len(Pending(bus'["bus"], "changed-spectra"))
                            = Len(Pending(bus["bus"], "changed-spectra")) + 1
    ]_vars

C12_Witness ==
    /\ lastOp.op = "remove_spectrum"
    /\ lastOp.raised
    /\ spectra # <<>>
    /\ \E i \in 1..Len(bus["bus"].queue) : bus["bus"].queue[i].events # <<>>

\* a sequence of integers shifted by D
Shifted(seq, D) == [i \in 1..Len(seq) |-> seq[i] + D]

C14_BadBackgroundTypeRejected ==
    [][(lastOp'.op = "background_type"
            /\ lastOp'.arg \in {"tougaard"} \cup (BgTypeInputs \ BgTypes)) =>
        /\ lastOp'.raised
        /\ attrs'.background_type = attrs.background_type
        /\ attrs'.background = attrs.background
        /\ received' = <<>>
    ]_vars

\* C15: assigning to background_bounds a sequence of odd length, or one with
\* a value outside the displayed energy range, raises, leaves the stored
\* bounds and the background array unchanged and emits no signal.
C15_BadBoundsRejected ==
    [][(lastOp'.op = "background_bounds"
            /\ \/ Len(lastOp'.arg) % 2 # 0
               \/ \E i \in 1..Len(lastOp'.arg) :
                     \/ lastOp'.arg[i] > MaxOf(Energy(attrs))
                     \/ lastOp'.arg[i] < MinOf(Energy(attrs))) =>
        /\ lastOp'.raised
        /\ attrs'.background_bounds = attrs.background_bounds
        /\ attrs'.background = attrs.background
        /\ received' = <<>>
    ]_vars

\* C16: the normalization_divisor setter accepts exactly the positive finite
\* values, and a rejected assignment leaves normalization_type and
\* normalization_divisor unchanged.
C16_DivisorPositiveFinite ==
    [][lastOp'.op = "normalization_divisor" =>
        /\ ~lastOp'.raised <=>
              (lastOp'.arg.kind = "finite" /\ lastOp'.arg.n > 0)
        /\ lastOp'.raised =>
              /\ attrs'.normalization_type = attrs.normalization_type
              /\ attrs'.normalization_divisor = attrs.normalization_divisor
    ]_vars

\* C17: an accepted divisor assignment leaves normalization_type manual, and
\* whenever normalization_type is none the divisor is 1.0 and the displayed
\* intensity equals the raw intensity.
C17_NoneMeansDivisorOne ==
    /\ (lastOp.op = "normalization_divisor" /\ ~lastOp.raised)
          => attrs.normalization_type = "manual"
    /\ attrs.normalization_type = "none" =>
          /\ attrs.normalization_divisor = Fin(1)
          /\ Intensity(attrs) =
                [i \in 1..Len(attrs.intensity) |-> Fin(attrs.intensity[i])]

C17_Witness ==
    /\ lastOp.op = "normalization_type"
    /\ lastOp.arg = "none"
    /\ received # <<>>
    /\ attrs.normalization_type = "none"

\* C18: add_peak with a name that a peak of the spectrum already has raises,
\* leaves the parameter pool and the peak list unchanged and emits no
\* changed-fit.
C18_DuplicatePeakRejected ==
    [][(lastOp'.op = "add_peak" /\ HasPeak(fit.peaks, lastOp'.arg)) =>
        /\ lastOp'.raised
        /\ fit' = fit
        /\ received' = <<>>
        /\ calls' = <<>>
    ]_vars

C18_Witness ==
    /\ lastOp.op = "add_peak"
    /\ lastOp.raised
    /\ HasPeak(fit.peaks, lastOp.arg)
    /\ Len(fit.peaks) = 2

\* C19: remove_peak deletes every parameter of the removed peak and none of
\* its siblings: after remove_peak, and after add_peak of a new peak, every
\* other peak of the spectrum still has all its own parameters in the pool.
C19_SiblingsKeepParams ==
    [][lastOp'.op \in {"remove_peak", "add_peak"} =>
        /\ lastOp'.op = "remove_peak" =>
              \A i \in 1..Len(fit.peaks) :
                 fit.peaks[i].name = lastOp'.arg =>
                    OwnKeys(fit.peaks[i]) \cap DOMAIN fit'.params = {}
        /\ \A i \in 1..Len(fit.peaks) :
              (fit.peaks[i].name # lastOp'.arg
                    /\ OwnKeys(fit.peaks[i]) \subseteq DOMAIN fit.params) =>
                 OwnKeys(fit.peaks[i]) \subseteq DOMAIN fit'.params
    ]_vars

\* the peaks other than the i-th whose name is the identifier, letter case
\* aside
SiblingsNamed(i, ident) ==
    {j \in 1..Len(fit.peaks) :
        j # i /\ ToUpper(Chars[fit.peaks[j].name]) = ToUpper(ident)}

\* the value of the fwhm of the i-th peak
Fwhm(i) ==
    Evaluate(fit.params, Key(Chars[fit.peaks[i].name], Chars["fwhm"]),
             MaxDepth).value

\* C20: relation2expr rewrites an identifier that is the name of a sibling
\* peak, letter case aside, to the sibling's pool key "<name>_<parameter>"
\* and leaves every other identifier as written; so after set_constraints
\* of fwhm with the relation "<sibling>*3" the fwhm of the peak is three
\* times the fwhm of the sibling, for names of any letter case.
C20_SiblingNamesRewritten ==
    /\ \A i \in 1..Len(fit.peaks), relation \in Relations :
          LET rel == Chars[relation]
              n == Run(rel, 1, IsAlnum)
              ident == SubSeq(rel, 1, n)
              rest == SubSeq(rel, n + 1, Len(rel))
              r == Relation2Expr(fit.peaks, fit.peaks[i], rel, "fwhm")
          IN  ToUpper(ident) # ToUpper(Chars[fit.peaks[i].name]) =>
                /\ ~r.raised
                /\ IF SiblingsNamed(i, ident) = {} THEN r.out = rel
                   ELSE \E j \in SiblingsNamed(i, ident) :
                           r.out = Key(Chars[fit.peaks[j].name], Chars["fwhm"])
                                      \o rest
    /\ \A i \in 1..Len(fit.peaks) :
          (/\ lastOp.op = "set_constraints"
           /\ lastOp.target = fit.peaks[i].name
           /\ lastOp.arg.alias = "fwhm"
           /\ lastOp.arg.expr # ""
           /\ ~lastOp.raised) =>
             \A j \in SiblingsNamed(i, SubSeq(Chars[lastOp.arg.expr], 1,
                                      Run(Chars[lastOp.arg.expr], 1, IsAlnum))) :
                (/\ OwnKeys(fit.peaks[i]) \subseteq DOMAIN fit.params
                 /\ OwnKeys(fit.peaks[j]) \subseteq DOMAIN fit.params) =>
                    Fwhm(i) = Rat(3 * Fwhm(j).n, Fwhm(j).d)

\* the identifier a relation starts with
Identifier(relation) ==
    SubSeq(Chars[relation], 1, Run(Chars[relation], 1, IsWord))

\* C21: set_constraints with an expression that refers to the peak's own
\* name, in any letter case, raises before anything is changed: the pool and
\* with it every constraint are as before and no subscriber is called.
C21_SelfReferenceRaises ==
    [][(/\ lastOp'.op = "set_constraints"
        /\ lastOp'.arg.alias = "fwhm"
        /\ lastOp'.arg.expr # ""
        /\ ToUpper(Identifier(lastOp'.arg.expr))
              = ToUpper(Chars[lastOp'.target])) =>
        /\ lastOp'.raised
        /\ fit' = fit
        /\ received' = <<>>
        /\ calls' = <<>>
    ]_vars

\* the pool key of the fwhm of the i-th peak
FwhmKey(i) == Key(Chars[fit.peaks[i].name], Chars["fwhm"])

\* the i-th peak has its fwhm in the pool, and set_constraints of the fwhm
\* with the relation gets as far as evaluating the rewritten expression,
\* which fails
RewrittenFails(i, relation) ==
    LET rewritten == Relation2Expr(fit.peaks, fit.peaks[i], Chars[relation],
                                   "fwhm")
        tried == [fit.params EXCEPT ![FwhmKey(i)] =
                    ParamSet(@, NotGiven, NotGiven, Given(Fin(0)),
                             Given(PosInf), Given(rewritten.out))]
    IN  /\ FwhmKey(i) \in DOMAIN fit.params
        /\ ~Evaluate(fit.params, FwhmKey(i), MaxDepth).raised
        /\ GetConstraints(fit.params, FwhmKey(i)).expr # Chars[relation]
        /\ ~rewritten.raised
        /\ ValuesDict(tried).raised

\* set_constraints of the fwhm of the i-th peak with an expression that
\* fails to evaluate is the step being taken
RejectedStep(i) ==
    /\ i \in 1..Len(fit.peaks)
    /\ lastOp'.op = "set_constraints"
    /\ lastOp'.target = fit.peaks[i].name
    /\ lastOp'.arg.alias = "fwhm"
    /\ lastOp'.arg.expr # ""
    /\ RewrittenFails(i, lastOp'.arg.expr)

\* C22: when the rewritten expression fails to evaluate, the constraint is
\* restored in full (value, vary, min, max and the expression it had):
\* get_constraints of the alias returns after the call what it returned
\* before.
C22_FailedExpressionRestored ==
    [][\A i \in 1..Cardinality(PeakNames) :
          RejectedStep(i) =>
             GetConstraints(fit'.params, FwhmKey(i))
                = GetConstraints(fit.params, FwhmKey(i))
    ]_vars

\* C23: when the rewritten expression fails to evaluate, the call reports
\* the failure to its caller by raising; it does not return as if it had
\* succeeded.
C23_FailedExpressionRaises ==
    [][\A i \in 1..Cardinality(PeakNames) :
          RejectedStep(i) => lastOp'.raised
    ]_vars

\* the constraints of an alias of the i-th peak in a pool
ConstraintsOf(f, i, alias) ==
    GetConstraints(f.params,
                   Key(Chars[f.peaks[i].name],
                       Chars[Aliases(f.peaks[i].shape)[alias]]))

C25_FitEmitsOnce ==
    lastOp.op = "do_fit" =>
       /\ lastOp.arg = "raises" => lastOp.raised
       /\ IF lastOp.raised
          THEN observed = <<>> /\ received = <<>> /\ calls = <<>>
          ELSE /\ observed = <<fit>>
               /\ received = <<"bus">>
               /\ SignalsCalled = <<"changed-fit">>

C25_Witness ==
    /\ lastOp.op = "do_fit"
    /\ lastOp.arg = "converged"
    /\ ~lastOp.raised
    /\ Len(fit.peaks) = 2
    /\ \E par \in DOMAIN fit.params :
          fit.params[par].expr # <<>> /\ fit.params[par].value = Fin(15)

\* the difference of two numbers, as a pair that is the same for equal
\* differences
Gap(x, y) == Rat(y.n * x.d - x.n * y.d, x.d * y.d)

\* C26: for every pair of one-dimensional arrays (energy, intensity) of
\* equal length, also with energies that are unsorted, unevenly spaced or
\* repeated, the constructor succeeds and the raw energy of the spectrum is
\* strictly increasing and equidistant.
C26_ConstructedEnergyEquidistant ==
    (/\ lastOp.op = "Spectrum"
     /\ Len(lastOp.arg.energy) = Len(lastOp.arg.intensity)) =>
        /\ ~lastOp.raised
        /\ \A k \in 1..(Len(attrs.energy) - 1) :
              /\ Less(attrs.energy[k], attrs.energy[k + 1])
              /\ Gap(attrs.energy[k], attrs.energy[k + 1])
                    = Gap(attrs.energy[1], attrs.energy[2])

\* the arguments of set_constraints of the fwhm of the i-th peak are the
\* constraints the fwhm has
NothingToChange(i, value, expr) ==
    LET old == GetConstraints(fit.params, FwhmKey(i))
    IN  /\ value.given => value.v = old.value
        /\ old.vary = (~value.given /\ expr = "")
        /\ old.min = Fin(0)
        /\ old.max = PosInf
        /\ old.expr = (IF expr = "" THEN <<>> ELSE Chars[expr])

\* C27: set_constraints emits exactly one changed-peak event when it changes
\* the constraint successfully, and none when it changes nothing or when the
\* expression is rejected (a self-reference, or an expression that fails to
\* evaluate).
C27_OneEventPerChange ==
    [][\A i \in 1..Cardinality(PeakNames) :
          (/\ i \in 1..Len(fit.peaks)
           /\ lastOp'.op = "set_constraints"
           /\ lastOp'.target = fit.peaks[i].name
           /\ lastOp'.arg.alias = "fwhm"
           /\ FwhmKey(i) \in DOMAIN fit.params
           /\ ~Evaluate(fit.params, FwhmKey(i), MaxDepth).raised) =>
             IF \/ NothingToChange(i, lastOp'.arg.value, lastOp'.arg.expr)
                \/ lastOp'.raised
                \/ RejectedStep(i)
             THEN observed' = <<>> /\ calls' = <<>>
             ELSE Len(observed') = 1 /\ SignalsCalled' = <<"changed-peak">>
    ]_vars

\* the callbacks a dispatch of one event of the signal calls on a bus
Invoked(b, signal) ==
    LET event == Event(signal, <<"sp1">>, Kwargs("attr"))
        r == FireSignal("bus", [b EXCEPT !.queue =
                                   QueueSet(b.queue, signal, <<event>>)],
                        signal)
    IN  {r.calls[i].callback : i \in 1..Len(r.calls)}

\* C28: unsubscribe(callback, signal) and unsubscribe(callback) return
\* without error, and afterwards a dispatch of that signal, or of any signal
\* when none was given, no longer calls the callback.
C28_UnsubscribedNotCalled ==
    [][lastOp'.op = "unsubscribe" =>
        /\ ~lastOp'.raised
        /\ \A signal \in Signals :
              lastOp'.signal \in {signal, "all"} =>
                 lastOp'.arg \notin Invoked(bus'["bus"], signal)
    ]_vars

\* C29: fire("all") returns without error, also when a subscriber emits on
\* the same bus during the dispatch, and when it returns no signal that has
\* subscribers has events pending.
C29_FireAllDrains ==
    (lastOp.op = "fire" /\ lastOp.signal = "all") =>
        /\ ~lastOp.raised
        /\ \A signal \in DOMAIN bus["bus"].subscribers :
              Pending(bus["bus"], signal) = <<>>

\* the values of attr of the events of a signal among some events, in order
AttrValues(events, signal) ==
    MergedValues(SelectSeq(events, LAMBDA e : e.signal = signal), "attr")

\* the values of attr a subscriber was called with for a signal, call after
\* call
RECURSIVE ReceivedValues(_, _, _)
ReceivedValues(made, sub, signal) ==
    IF made = <<>> THEN <<>>
    ELSE (IF /\ Head(made).callback = sub.callback
             /\ Head(made).priority = sub.priority
             /\ Head(made).event.signal = signal
          THEN Head(made).event.properties["attr"] ELSE <<>>)
            \o ReceivedValues(Tail(made), sub, signal)

\* C30: every subscriber of a signal receives the events of the signal in
\* the order they were emitted, each exactly once, also when a subscriber of
\* higher precedence emits the same signal while a dispatch under policy
\* fire is in progress: what a subscriber has been called with, followed by
\* what is still pending, is what was pending followed by what was emitted.
C30_EventsInEmissionOrder ==
    [][(lastOp'.op \in {"emit", "fire"} /\ ~lastOp'.raised) =>
        \A signal \in DOMAIN bus["bus"].subscribers :
           \A k \in 1..Len(bus["bus"].subscribers[signal]) :
              ReceivedValues(calls', bus["bus"].subscribers[signal][k], signal)
                    \o AttrValues(Pending(bus'["bus"], signal), signal)
                 = AttrValues(Pending(bus["bus"], signal), signal)
                      \o AttrValues(observed', signal)
    ]_vars

\* what enqueue does with an event of a signal, named as the policy that
\* does it: the event is dropped, dispatched at once, or left pending
AppliedPolicy(b, signal) ==
    LET policy == EnqueuePolicy(b, signal)
    IN  IF b.policy["all"] = None /\ policy = "ignore" THEN "ignore"
        ELSE IF policy = "fire" THEN "fire"
        ELSE "accumulate"

\* C31: in every reachable state get_policy(signal) returns the policy that
\* enqueue applies to the events of that signal, also after set_policy(p)
\* for all signals: a policy set for one signal still governs that signal.
C31_GetPolicyIsApplied ==
    \A signal \in Signals :
        GetPolicy(bus["bus"], signal) = AppliedPolicy(bus["bus"], signal)

\* C32: set_meta stores the datum before the hook runs: when the
\* changed-spectrum-meta event of set_meta(attr, value) is delivered to a
\* subscriber under policy fire, get_meta(attr) on the spectrum returns the
\* new value.
C32_MetaStoredBeforeEvent ==
    [][(lastOp'.op = "set_meta" /\ calls' # <<>>) =>
        GetMetaOp(observed'[1], lastOp'.arg.attr) = lastOp'.arg.value
    ]_vars

\* C33: after obs.deepcopy() returns, obs and every descendant are
\* registered with the same buses in the same order as before, the copy and
\* its descendants are registered with no bus, and no event is emitted.
C33_DeepCopyReconnects ==
    [][lastOp'.op = "deepcopy" =>
        /\ queues' = queues
        /\ \A o \in DOMAIN lastOp'.arg : lastOp'.arg[o] = <<>>
        /\ bus' = bus
        /\ calls' = <<>>
        /\ received' = <<>>
    ]_vars

\* the lower/upper pairs of an even-length array of bounds that are the
\* pair <<lower, upper>>
PairsEqual(bounds, lower, upper) ==
    {k \in 1..(Len(bounds) \div 2) :
        bounds[2 * k - 1] = lower /\ bounds[2 * k] = upper}

\* C34: for any existing bounds, add_background_bounds(emin, emax) that
\* succeeds adds one pair and leaves the pairs that existed their
\* lower/upper pairing, and remove_background_bounds(emin, emax) after it
\* succeeds and restores the previous bounds.
C34_AddThenRemoveRestores ==
    \A emin, emax \in BoundInputs :
        LET add == AddBackgroundBoundsOp(attrs, emin, emax)
            remove == RemoveBackgroundBoundsOp(add.after, emin, emax)
            new == IF emin > emax THEN <<emax, emin>> ELSE <<emin, emax>>
            before == BackgroundBounds(attrs)
            after == BackgroundBounds(add.after)
        IN  ~add.raised =>
              /\ \A i, j \in 1..Len(after) :
                    Cardinality(PairsEqual(after, after[i], after[j]))
                       = Cardinality(PairsEqual(before, after[i], after[j]))
                            + (IF <<after[i], after[j]>> = new THEN 1 ELSE 0)
              /\ ~remove.raised
              /\ BackgroundBounds(remove.after) = before

\* C35: remove_peak with a peak that is not a member of the spectrum (a peak
\* of another spectrum) raises and changes nothing: no parameter pool loses
\* an entry, no peak list changes and no signal is emitted.
C35_RemoveNonMemberChangesNothing ==
    [][(lastOp'.op = "remove_peak" /\ lastOp'.arg.owner # lastOp'.target) =>
        /\ lastOp'.raised
        /\ fit' = fit
        /\ received' = <<>>
        /\ calls' = <<>>
        /\ bus' = bus
    ]_vars

\* the region of the background is the whole energy range: no bounds are
\* set, or the one pair of bounds is the first and the last energy
WholeRange(a) ==
    \/ BackgroundBounds(a) = <<>>
    \/ BackgroundBounds(a) = <<MinOf(Energy(a)), MaxOf(Energy(a))>>

\* the line through the first and the last sample of equidistant samples,
\* at the i-th of them
TwoPoint(intensity, i) ==
    Rat(intensity[1] * (Len(intensity) - 1)
           + (i - 1) * (intensity[Len(intensity)] - intensity[1]),
        Len(intensity) - 1)

\* C36: for a region that spans the whole energy range the linear
\* background is, at every sample including the last one, the two-point
\* interpolation between the intensities of the first and the last sample,
\* also for four equidistant points with increasing intensity.
C36_LinearBackgroundInterpolates ==
    [][(/\ lastOp'.op \in {"background_type", "background_bounds"}
        /\ ~lastOp'.raised
        /\ attrs'.background_type = "linear"
        /\ WholeRange(attrs')) =>
            \A i \in 1..Len(attrs'.intensity) :
                attrs'.background[i] = TwoPoint(attrs'.intensity, i)
    ]_vars

\* no event is pending on the bus
NothingPending ==
    \A i \in 1..Len(bus["bus"].queue) : bus["bus"].queue[i].events = <<>>

\* every active spectrum is in the container and every active peak is a
\* peak of an active spectrum
ActiveValid ==
    /\ \A i \in 1..Len(attrs.active_spectra) :
          InList(spectra, attrs.active_spectra[i])
    /\ \A i \in 1..Len(attrs.active_peaks) :
          \E j \in 1..Len(attrs.active_spectra) :
             InList(WorldOf(spectra, fit).peaks[attrs.active_spectra[j]],
                    attrs.active_peaks[i])

\* the list assigned holds a spectrum that is not in the container, or a
\* peak that is no peak of an active spectrum
AssignsNonMember ==
    \/ /\ lastOp'.op = "active_spectra"
       /\ \E i \in 1..Len(lastOp'.arg) : ~InList(spectra, lastOp'.arg[i])
    \/ /\ lastOp'.op = "active_peaks"
       /\ \E i \in 1..Len(lastOp'.arg) :
             ~\E j \in 1..Len(attrs.active_spectra) :
                 InList(WorldOf(spectra, fit).peaks[attrs.active_spectra[j]],
                        lastOp'.arg[i])

\* the assignment changed neither active list and emitted nothing
ActiveUnchanged ==
    /\ attrs'.active_spectra = attrs.active_spectra
    /\ attrs'.active_peaks = attrs.active_peaks
    /\ observed' = <<>>

\* the list assigned is the list there is: the setter returns at once
AssignsSame ==
    \/ lastOp'.op = "active_spectra" /\ lastOp'.arg = attrs.active_spectra
    \/ lastOp'.op = "active_peaks" /\ lastOp'.arg = attrs.active_peaks

\* C37 as stated: whenever the bus has no pending events, every active
\* spectrum is in the container and every active peak belongs to an active
\* spectrum; assigning a list with a non-member raises ValueError and
\* leaves the active lists unchanged.
C37_NonMemberAlwaysRaises ==
    [][/\ NothingPending' => ActiveValid'
       /\ AssignsNonMember => (lastOp'.raised /\ ActiveUnchanged) ]_vars

\* C37: whenever the bus has no pending events, every active spectrum is in
\* the container and every active peak belongs to an active spectrum;
\* assigning a list with a non-member leaves the active lists unchanged, and
\* raises ValueError unless the list assigned equals the current one (which
\* can hold a non-member only while events are pending).
C37_ActiveObjectsValid ==
    [][/\ NothingPending' => ActiveValid'
       /\ AssignsNonMember =>
             /\ ActiveUnchanged
             /\ lastOp'.raised = ~AssignsSame
             /\ AssignsSame => ~NothingPending ]_vars

\* an assignment of a spectrum that is not in the container was rejected
\* while a spectrum was active and no event was pending
C37_Witness ==
    /\ lastOp.op = "active_spectra" /\ lastOp.raised
    /\ \E i \in 1..Len(lastOp.arg) : ~InList(spectra, lastOp.arg[i])
    /\ attrs.active_spectra # <<>>
    /\ NothingPending

\* C38: once the bus has no pending events, a subscriber that mirrors
\* project_isaltered whenever it receives changed-project agrees with the
\* flag, however the flag was changed.
C38_MirrorAgrees ==
    NothingPending => attrs.mirror = attrs.project_isaltered

\* C39: in every reachable state the normalization divisor is not zero and
\* every displayed intensity raw/divisor is a number, whatever the
\* intensity data and whichever normalization assignments were accepted.
C39_DivisorNeverZero ==
    /\ ~(attrs.normalization_divisor.kind = "finite"
            /\ attrs.normalization_divisor.n = 0)
    /\ \A i \in 1..Len(attrs.intensity) : Intensity(attrs)[i].kind = "finite"
====
